---- MODULE Spec2Model ----
(***************************************************************************)
(* Pai Sho rules-and-search core: 249-point grid, packed-piece board,      *)
(* Arrange legality, clash detection, harmony graph, accent planners,      *)
(* apply operations and the iterative-deepening alpha-beta search.         *)
(*                                                                         *)
(* Board indices are 1-based (1..249); the coordinate helpers are 0-based  *)
(* (0..248).  coordsOf of an index outside 0..248 is `undefined` in the    *)
(* program and every use of it (destructuring or field access) raises a    *)
(* TypeError; results carry a `threw` field that says when that happens.   *)
(***************************************************************************)
EXTENDS Integers, Sequences, FiniteSets, TLC

Abs(n) == IF n < 0 THEN -n ELSE n

Sign(n) == IF n > 0 THEN 1 ELSE IF n < 0 THEN -1 ELSE 0

Max(a, b) == IF a > b THEN a ELSE b

SetMin(S) == CHOOSE m \in S : \A n \in S : m <= n

\* sum of the values of a function whose domain is a finite set of integers
RECURSIVE SumFn(_)
SumFn(f) ==
  IF DOMAIN f = {} THEN 0
  ELSE f[SetMin(DOMAIN f)] + SumFn([x \in (DOMAIN f) \ {SetMin(DOMAIN f)} |-> f[x]])

(* ------------------------------ Geometry ------------------------------ *)

ROW_WIDTHS == <<9, 11, 13, 15, 17, 17, 17, 17, 17, 17, 17, 17, 17, 15, 13, 11, 9>>

NUM_ROWS == Len(ROW_WIDTHS)

\* the offset of row r (0..16 in the program) is entry r + 1
ROW_OFFSETS ==
  [r \in 1..NUM_ROWS |-> SumFn([k \in 1..(r - 1) |-> ROW_WIDTHS[k]])] \o <<>>

NUM_SQUARES == ROW_OFFSETS[NUM_ROWS] + ROW_WIDTHS[NUM_ROWS]

rowToY(r) == r - 8

MinX(r) == -((ROW_WIDTHS[r + 1] - 1) \div 2)

toIndex(row, col) ==
  IF row < 0 \/ row >= NUM_ROWS THEN -1
  ELSE IF col < 0 \/ col >= ROW_WIDTHS[row + 1] THEN -1
  ELSE ROW_OFFSETS[row + 1] + col

\* the points pushed row by row, column by column; the point of index idx
\* (0..248 in the program) is entry idx + 1
XY_BY_INDEX ==
  [i \in 1..NUM_SQUARES |->
     CHOOSE p \in {[x |-> MinX(r) + ((i - 1) - ROW_OFFSETS[r + 1]), y |-> rowToY(r)] :
                     r \in {rr \in 0..(NUM_ROWS - 1) :
                              /\ ROW_OFFSETS[rr + 1] <= i - 1
                              /\ i - 1 < ROW_OFFSETS[rr + 1] + ROW_WIDTHS[rr + 1]}} :
       TRUE] \o <<>>

\* a lookup that does not test the column against the width of the row
indexOfAnyColumn(x, y) ==
  IF y + 8 < 0 \/ y + 8 >= NUM_ROWS THEN -1
  ELSE ROW_OFFSETS[y + 9] + (x - MinX(y + 8))

indexOf(x, y) ==
  IF y + 8 < 0 \/ y + 8 >= NUM_ROWS THEN -1
  ELSE toIndex(y + 8, x - MinX(y + 8))

\* coordsOf(index) = XY_BY_INDEX[index]; `undefined` outside 0..248
coordsOfDefined(index) == index \in 0..(NUM_SQUARES - 1)

coordsOf(index) == XY_BY_INDEX[index + 1]

\* Only({e : v \in {d}}) is e with v standing for the value d
Only(S) == CHOOSE v \in S : TRUE

RECURSIVE Concat(_)
Concat(seqs) == IF seqs = <<>> THEN <<>> ELSE Head(seqs) \o Concat(Tail(seqs))

\* ascending sequence of the elements of a finite set of integers
SortedSeq(S) ==
  [k \in 1..Cardinality(S) |-> CHOOSE m \in S : Cardinality({n \in S : n < m}) = k - 1]

\* 1-based orthogonal neighbours in the order right, left, up, down
NEIGHBORS4_1 ==
  [idx1 \in 1..NUM_SQUARES |->
     SelectSeq([k \in 1..4 |->
                  indexOf(coordsOf(idx1 - 1).x + <<1, -1, 0, 0>>[k],
                          coordsOf(idx1 - 1).y + <<0, 0, 1, -1>>[k]) + 1],
               LAMBDA n : n # 0)] \o <<>>

\* offsets of the 8-neighbourhood in the program's loop order (dx outer, dy inner)
Ring8 ==
  << <<-1, -1>>, <<-1, 0>>, <<-1, 1>>, <<0, -1>>, <<0, 1>>, <<1, -1>>, <<1, 0>>, <<1, 1>> >>

NEIGHBORS8_1 ==
  [idx1 \in 1..NUM_SQUARES |->
     SelectSeq([k \in 1..Len(Ring8) |->
                  indexOf(coordsOf(idx1 - 1).x + Ring8[k][1],
                          coordsOf(idx1 - 1).y + Ring8[k][2]) + 1],
               LAMBDA n : n # 0)] \o <<>>

(* ------------------------------- Board -------------------------------- *)

TOTAL_POINTS == NUM_SQUARES

TypeId ==
  [Empty |-> 0, R3 |-> 1, R4 |-> 2, R5 |-> 3, W3 |-> 4, W4 |-> 5, W5 |-> 6,
   Lotus |-> 7, Orchid |-> 8, Rock |-> 9, Wheel |-> 10, Boat |-> 11, Knotweed |-> 12]

Owner == [Host |-> 0, Guest |-> 1]

packPiece(type, owner) == (type % 16) + 16 * (owner % 2)

\* unpackPiece(packed).type and .owner for a non-empty cell
TypeOf(packed) == packed % 16

OwnerOf(packed) == (packed \div 16) % 2

Side(owner) == IF owner = 0 THEN "host" ELSE "guest"

EmptySquares == [i \in 1..TOTAL_POINTS |-> 0]

\* The heap of Board objects: reference -> squares
\* new Board: a reference the heap does not hold yet
NewBoard(h, initial) ==
  CHOOSE b \in {[heap |-> [o \in (DOMAIN h) \cup {r} |-> IF o \in DOMAIN h THEN h[o] ELSE initial],
                 ref |-> r] :
                  r \in {CHOOSE f \in 0..Cardinality(DOMAIN h) : f \notin DOMAIN h}} : TRUE

getAtIndex(h, b, index) == h[b][index]

setAtIndex(h, b, index, packed) == [h EXCEPT ![b][index] = packed]

\* a clone that hands back the board it was asked to copy
cloneAliased(h, b) == [heap |-> h, ref |-> b]

clone(h, b) == NewBoard(h, h[b])

(* ------------------------------- Rules -------------------------------- *)

isGateCoord(x, y) == (Abs(x) = 8 /\ y = 0) \/ (Abs(y) = 8 /\ x = 0)

intersectionType(x, y) ==
  IF isGateCoord(x, y) THEN "gate"
  ELSE IF x = 0 \/ y = 0 THEN "neutral"
  ELSE IF Abs(x) = Abs(y) THEN "neutral"
  ELSE IF x * y > 0 THEN "white"
  ELSE IF x * y < 0 THEN "red"
  ELSE "neutral"

\* a classifier that gives every point of a garden as neutral
getGardenTypeColourless(x, y) == IF isGateCoord(x, y) THEN "gate" ELSE "neutral"

getGardenType(x, y) == intersectionType(x, y)

HARMONY_CYCLE == <<"R3", "R4", "R5", "W3", "W4", "W5">>

\* position of garden+number on HARMONY_CYCLE, 0-based
CycleIndex(garden, num) == (IF garden = "R" THEN 0 ELSE 3) + (num - 3)

\* a pair test that forgets that the cycle closes from W5 back to R3
harmoniousPairOpenCycle(aGarden, aNum, bGarden, bNum) ==
  Abs(CycleIndex(aGarden, aNum) - CycleIndex(bGarden, bNum)) = 1

harmoniousPair(aGarden, aNum, bGarden, bNum) ==
  Abs(CycleIndex(aGarden, aNum) - CycleIndex(bGarden, bNum)) \in {1, Len(HARMONY_CYCLE) - 1}

isClashPair(aGarden, aNum, bGarden, bNum) == aGarden # bGarden /\ aNum = bNum

IsBasicType(t) == t \in {TypeId.R3, TypeId.R4, TypeId.R5, TypeId.W3, TypeId.W4, TypeId.W5}

IsFlowerType(t) == IsBasicType(t) \/ t \in {TypeId.Lotus, TypeId.Orchid}

isAccentType(t) == t \in {TypeId.Rock, TypeId.Wheel, TypeId.Boat, TypeId.Knotweed}

\* isBloomingIndex(index) destructures coordsOf(index)
isBloomingIndexThrows(index) == ~coordsOfDefined(index)

isBloomingIndex(index) == \E c \in {coordsOf(index)} : ~isGateCoord(c.x, c.y)

Occupied(sq) == {i \in 1..TOTAL_POINTS : sq[i] # 0}

\* the cells the loop of ownerHasBloomingLotus tests with isBloomingIndex
OwnLotuses(sq, owner) ==
  {i \in Occupied(sq) : TypeOf(sq[i]) = TypeId.Lotus /\ Side(OwnerOf(sq[i])) = owner}

\* the loop returns true at the first blooming Lotus of the owner, in index order
ownerHasBloomingLotusThrows(sq, owner) ==
  \E lot \in {OwnLotuses(sq, owner)} :
    \E t \in lot : /\ isBloomingIndexThrows(t)
                   /\ \A j \in lot : j < t => ~isBloomingIndex(j)

ownerHasBloomingLotus(sq, owner) ==
  \E i \in OwnLotuses(sq, owner) : ~isBloomingIndexThrows(i) /\ isBloomingIndex(i)

getPieceDescriptorThrows(sq, index) ==
  /\ sq[index] # 0
  /\ \/ isBloomingIndexThrows(index)
     \/ /\ TypeOf(sq[index]) = TypeId.Orchid
        /\ ownerHasBloomingLotusThrows(sq, Side(OwnerOf(sq[index])))

\* the descriptor of a piece of type t
Descriptor(sq, t, owner, blooming) ==
  IF IsBasicType(t)
    THEN [kind |-> "basic", owner |-> owner,
          garden |-> IF t \in {TypeId.R3, TypeId.R4, TypeId.R5} THEN "R" ELSE "W",
          number |-> IF t \in {TypeId.R3, TypeId.W3} THEN 3
                     ELSE IF t \in {TypeId.R4, TypeId.W4} THEN 4 ELSE 5,
          blooming |-> blooming]
  ELSE IF t = TypeId.Lotus
    THEN [kind |-> "lotus", owner |-> owner, blooming |-> blooming]
  ELSE IF t = TypeId.Orchid
    THEN [kind |-> "orchid", owner |-> owner, blooming |-> blooming,
          wild |-> ownerHasBloomingLotus(sq, owner)]
  ELSE IF t = TypeId.Rock THEN [kind |-> "accent", owner |-> owner, accent |-> "rock"]
  ELSE IF t = TypeId.Wheel THEN [kind |-> "accent", owner |-> owner, accent |-> "wheel"]
  ELSE IF t = TypeId.Boat THEN [kind |-> "accent", owner |-> owner, accent |-> "boat"]
  ELSE IF t = TypeId.Knotweed THEN [kind |-> "accent", owner |-> owner, accent |-> "knotweed"]
  ELSE [kind |-> "empty"]

getPieceDescriptor(sq, index) ==
  IF sq[index] = 0 THEN [kind |-> "empty"]
  ELSE Descriptor(sq, TypeOf(sq[index]), Side(OwnerOf(sq[index])), isBloomingIndex(index))

\* 1-based cells in the 8-neighbourhood of the point coordsOf(index)
Around(index) ==
  {indexOf(c.x + Ring8[k][1], c.y + Ring8[k][2]) + 1 :
     c \in {coordsOf(index)}, k \in 1..Len(Ring8)} \ {0}

isTrappedByOrchidThrows(sq, index) ==
  sq[index] # 0 /\ IsFlowerType(TypeOf(sq[index])) /\ ~coordsOfDefined(index)

isTrappedByOrchid(sq, index) ==
  /\ sq[index] # 0
  /\ IsFlowerType(TypeOf(sq[index]))
  /\ \E n \in Around(index) :
       /\ sq[n] # 0
       /\ TypeOf(sq[n]) = TypeId.Orchid
       /\ OwnerOf(sq[n]) # OwnerOf(sq[index])

(* --------------------------- Move legality ---------------------------- *)

Aligned(a1, b1) ==
  \E a \in {coordsOf(a1 - 1)}, b \in {coordsOf(b1 - 1)} : a.x = b.x \/ a.y = b.y

\* the points strictly between a and b on their common axis are on the
\* grid, empty and not gates
PathOpen(sq, a, b) ==
  \A k \in 1..(Abs(b.x - a.x) + Abs(b.y - a.y) - 1) :
    \E cx \in {a.x + k * Sign(b.x - a.x)}, cy \in {a.y + k * Sign(b.y - a.y)} :
      \E mid0 \in {indexOf(cx, cy)} :
        /\ mid0 # -1
        /\ sq[mid0 + 1] = 0
        /\ ~isGateCoord(cx, cy)

lineOfSightClear(sq, aIdx1, bIdx1) ==
  \E a \in {coordsOf(aIdx1 - 1)}, b \in {coordsOf(bIdx1 - 1)} :
    (a.x = b.x \/ a.y = b.y) /\ PathOpen(sq, a, b)

\* cells whose descriptor cannot be built
DescThrowSet(sq) == {i \in Occupied(sq) : getPieceDescriptorThrows(sq, i)}

\* cells a scan sees as a blooming basic flower
BloomingBasics(sq) ==
  {i \in Occupied(sq) : /\ ~getPieceDescriptorThrows(sq, i)
                        /\ IsBasicType(TypeOf(sq[i]))
                        /\ isBloomingIndex(i)}

ClashBetween(sq, a, b) ==
  /\ a # b
  /\ Aligned(a, b)
  /\ lineOfSightClear(sq, a, b)
  /\ \E pA \in {getPieceDescriptor(sq, a)}, pB \in {getPieceDescriptor(sq, b)} :
       isClashPair(pA.garden, pA.number, pB.garden, pB.number)

\* the scan is in index order: with a cell whose descriptor throws at t, the
\* call returns true only if the first blooming basic below t has a clash
\* partner below t; otherwise the scan reaches t and throws
ClashBeforeThrow(sq) ==
  \E early \in {{i \in BloomingBasics(sq) : i < SetMin(DescThrowSet(sq))}} :
    /\ early # {}
    /\ \E j \in early : ClashBetween(sq, SetMin(early), j)

\* "throw", or the boolean the scan returns as "true" / "false"
detectAnyClashOutcome(sq) ==
  IF DescThrowSet(sq) # {}
    THEN IF ClashBeforeThrow(sq) THEN "true" ELSE "throw"
  ELSE IF \E nodes \in {BloomingBasics(sq)} :
            \E a \in nodes : \E b \in nodes : ClashBetween(sq, a, b)
    THEN "true"
  ELSE "false"

detectAnyClash(sq) == detectAnyClashOutcome(sq) = "true"

Reject(reason) == [ok |-> FALSE, threw |-> FALSE, reason |-> reason]

Threw == [ok |-> FALSE, threw |-> TRUE, reason |-> "TypeError"]

\* a limit of two steps for every flower
MoveLimitTwo(desc) == 2

MoveLimit(desc) ==
  IF desc.kind = "basic" THEN desc.number
  ELSE IF desc.kind = "lotus" THEN 2
  ELSE IF desc.kind = "orchid" THEN 6
  ELSE 0

\* the checks of one step without the test of the squares already seen
StepChecksRevisiting(sq, desc, p, c, cur1, seen, isFinal) ==
  IF Abs(p.x - c.x) + Abs(p.y - c.y) # 1 THEN "non-orthogonal step"
  ELSE IF sq[cur1] # 0 /\ ~isFinal THEN "blocked at intermediate"
  ELSE IF isFinal /\ isGateCoord(c.x, c.y) THEN "cannot end move in a gate"
  ELSE IF isFinal /\ desc.kind = "basic" /\ desc.garden = "W" /\ getGardenType(c.x, c.y) = "red"
    THEN "cannot end in opposite garden (red)"
  ELSE IF isFinal /\ desc.kind = "basic" /\ desc.garden = "R" /\ getGardenType(c.x, c.y) = "white"
    THEN "cannot end in opposite garden (white)"
  ELSE ""

\* the checks of one step from the point p to the point c = coordsOf(cur1 - 1),
\* "" when it passes
StepChecks(sq, desc, p, c, cur1, seen, isFinal) ==
  IF Abs(p.x - c.x) + Abs(p.y - c.y) # 1 THEN "non-orthogonal step"
  ELSE IF cur1 \in seen THEN "path revisits a square (redundant)"
  ELSE IF sq[cur1] # 0 /\ ~isFinal THEN "blocked at intermediate"
  ELSE IF isFinal /\ isGateCoord(c.x, c.y) THEN "cannot end move in a gate"
  ELSE IF isFinal /\ desc.kind = "basic" /\ desc.garden = "W" /\ getGardenType(c.x, c.y) = "red"
    THEN "cannot end in opposite garden (red)"
  ELSE IF isFinal /\ desc.kind = "basic" /\ desc.garden = "R" /\ getGardenType(c.x, c.y) = "white"
    THEN "cannot end in opposite garden (white)"
  ELSE ""

\* the outcome of the checks of step i (1-based) of the path
StepReason(sq, fromIdx1, path, desc, i) ==
  StepChecks(sq, desc, coordsOf((IF i = 1 THEN fromIdx1 ELSE path[i - 1]) - 1),
             coordsOf(path[i] - 1), path[i],
             {fromIdx1} \cup {path[k] : k \in 1..(i - 1)}, i = Len(path))

\* the board validateArrange simulates: source removed, mover on the final square
Simulated(sq, fromIdx1, final1, packed) ==
  [i \in DOMAIN sq |-> IF i = final1 THEN packed ELSE IF i = fromIdx1 THEN 0 ELSE sq[i]]

\* the result once every step has its outcome in reasons; clash is the outcome
\* of detectAnyClash on the simulated board
PathVerdict(reasons, clash) ==
  IF \E i \in DOMAIN reasons : reasons[i] # ""
    THEN Reject(reasons[SetMin({i \in DOMAIN reasons : reasons[i] # ""})])
  ELSE IF clash = "throw" THEN Threw
  ELSE IF clash = "true" THEN Reject("move would create a Clash")
  ELSE [ok |-> TRUE, threw |-> FALSE, reason |-> ""]

\* the part of validateArrange from the descriptor of the mover on
ArrangeVerdict(sq, fromIdx1, path, desc) ==
  IF Len(path) > MoveLimit(desc) THEN Reject("path too long")
  ELSE PathVerdict([i \in 1..Len(path) |-> StepReason(sq, fromIdx1, path, desc, i)],
                   detectAnyClashOutcome(Simulated(sq, fromIdx1, path[Len(path)], sq[fromIdx1])))

validateArrange(sq, fromIdx1, path) ==
  IF Len(path) = 0 THEN Reject("empty path")
  ELSE IF sq[fromIdx1] = 0 THEN Reject("no piece at from index")
  ELSE IF ~IsFlowerType(TypeOf(sq[fromIdx1])) THEN Reject("only flower tiles may arrange")
  ELSE IF isTrappedByOrchidThrows(sq, fromIdx1) THEN Threw
  ELSE IF isTrappedByOrchid(sq, fromIdx1) THEN Reject("source flower is trapped by enemy orchid")
  ELSE IF getPieceDescriptorThrows(sq, fromIdx1) THEN Threw
  ELSE ArrangeVerdict(sq, fromIdx1, path, getPieceDescriptor(sq, fromIdx1))

(* --------------------------- Harmony graph ---------------------------- *)

isRockAt(sq, idx1) == sq[idx1] # 0 /\ TypeOf(sq[idx1]) = TypeId.Rock

isKnotweedAt(sq, idx1) == sq[idx1] # 0 /\ TypeOf(sq[idx1]) = TypeId.Knotweed

\* scanAxis with the Rock predicate: a Rock on a grid point strictly between
\* the points a and b
RockOnAxis(sq, a, b) ==
  \E k \in 1..(Abs(b.x - a.x) + Abs(b.y - a.y) - 1) :
    \E mid0 \in {indexOf(a.x + k * Sign(b.x - a.x), a.y + k * Sign(b.y - a.y))} :
      mid0 # -1 /\ isRockAt(sq, mid0 + 1)

hasRockBlockingHarmony(sq, aIdx1, bIdx1) ==
  \E a \in {coordsOf(aIdx1)}, b \in {coordsOf(bIdx1)} :
    /\ a.x = b.x \/ a.y = b.y
    /\ \/ RockOnAxis(sq, a, b)
       \/ isRockAt(sq, aIdx1)
       \/ isRockAt(sq, bIdx1)

nearKnotweed(sq, idx1) == \E n \in Around(idx1) : isKnotweedAt(sq, n)

isHarmonyCancelledByKnotweed(sq, aIdx1, bIdx1) ==
  \E i \in {aIdx1, bIdx1} : nearKnotweed(sq, i)

harmonyCancelledByAccents(sq, aIdx1, bIdx1) ==
  hasRockBlockingHarmony(sq, aIdx1, bIdx1) \/ isHarmonyCancelledByKnotweed(sq, aIdx1, bIdx1)

isHarmonyActivePair(sq, aIdx1, bIdx1, aGarden, aNum, bGarden, bNum) ==
  /\ harmoniousPair(aGarden, aNum, bGarden, bNum)
  /\ ~harmonyCancelledByAccents(sq, aIdx1, bIdx1)

buildHarmonyGraphThrows(sq) == DescThrowSet(sq) # {}

\* the test of the pair loop for nodes a < b
HarmonyEdge(sq, a, b) ==
  /\ Aligned(a, b)
  /\ lineOfSightClear(sq, a, b)
  /\ \E pA \in {getPieceDescriptor(sq, a)}, pB \in {getPieceDescriptor(sq, b)} :
       isHarmonyActivePair(sq, a, b, pA.garden, pA.number, pB.garden, pB.number)

\* adjacency lists keyed by board index; each list is in ascending order
AdjacencyLists(nodes, edges) ==
  [a \in {n \in nodes : \E e \in edges : n \in e} |->
     SortedSeq({b \in nodes : b # a /\ {a, b} \in edges})]

buildHarmonyGraph(sq) ==
  AdjacencyLists(BloomingBasics(sq),
                 {{e[1], e[2]} : e \in {p \in BloomingBasics(sq) \X BloomingBasics(sq) :
                                          p[1] < p[2] /\ HarmonyEdge(sq, p[1], p[2])}})

\* the place of node n in the order the pair loop first sets the keys of the
\* graph: with the edge to its least neighbour, as second node of the pair
\* when that neighbour is below n and as first node otherwise
KeyRank(g, n) ==
  IF g[n][1] < n THEN (g[n][1] * (TOTAL_POINTS + 1) + n) * 2 + 1
  ELSE (n * (TOTAL_POINTS + 1) + g[n][1]) * 2

\* Array.from(graph.keys())
GraphKeys(g) ==
  [k \in 1..Cardinality(DOMAIN g) |->
     CHOOSE n \in DOMAIN g :
       Cardinality({m \in DOMAIN g : KeyRank(g, m) < KeyRank(g, n)}) = k - 1]

maxLen == 20

\* the cycles the walk from start closes, in the order it closes them; seen
\* is the set of the nodes of path, and parent is 0 at the start
RECURSIVE dfs(_, _, _, _, _)
dfs(g, start, curr, parent, path) ==
  IF Len(path) > maxLen THEN <<>>
  ELSE Concat([k \in 1..Len(g[curr]) |->
                 IF g[curr][k] = parent THEN <<>>
                 ELSE IF g[curr][k] = start /\ Len(path) >= 4 THEN <<path>>
                 ELSE IF g[curr][k] \notin {path[i] : i \in 1..Len(path)} /\ g[curr][k] > start
                   THEN dfs(g, start, g[curr][k], curr, Append(path, g[curr][k]))
                 ELSE <<>>])

\* the test of the polygon edge from the point pj to the point pi: the ends
\* lie on different sides of the x-axis and the edge meets it right of 0
EdgeIntersects(pi, pj) ==
  /\ (pi.y > 0) # (pj.y > 0)
  /\ IF pj.y - pi.y > 0
       THEN 0 < (pj.x - pi.x) * (0 - pi.y) + pi.x * (pj.y - pi.y)
     ELSE 0 > (pj.x - pi.x) * (0 - pi.y) + pi.x * (pj.y - pi.y)

\* an enclosure test that every cycle passes
cycleEnclosesAnything(cycle) == TRUE

\* inside is toggled once for every edge that intersects
cycleEnclosesOrigin(cycle) ==
  Cardinality({i \in 1..Len(cycle) :
                 EdgeIntersects(coordsOf(cycle[i] - 1),
                                coordsOf(cycle[IF i = 1 THEN Len(cycle) ELSE i - 1] - 1))}) % 2 = 1

\* the rings pushed for the cycles closed, in order: a cycle whose sorted
\* node list is in visited, because an earlier cycle had it, is dropped; any
\* other adds it to visited and is pushed when it encloses the origin
PushRings(cycles) ==
  Only({Only({[i \in 1..Len(kept) |-> cycles[kept[i]]] \o <<>> :
                kept \in {SortedSeq({k \in 1..Len(cycles) :
                                       /\ \A j \in 1..(k - 1) : keys[j] # keys[k]
                                       /\ cycleEnclosesOrigin(cycles[k])})}}) :
          keys \in {[k \in 1..Len(cycles) |-> {cycles[k][i] : i \in 1..Len(cycles[k])}] \o <<>>}})

\* every cycle the walks close, start by start
ClosedCycles(g) ==
  Only({Concat([k \in 1..Len(nodes) |-> dfs(g, nodes[k], nodes[k], 0, <<nodes[k]>>)]) :
          nodes \in {GraphKeys(g)}})

findHarmonyRings(sq) ==
  Only({PushRings(cycles) : cycles \in {ClosedCycles(buildHarmonyGraph(sq))}})

(* ------------------------- Accent planners ---------------------------- *)

CW_RING ==
  << <<-1, -1>>, <<0, -1>>, <<1, -1>>, <<1, 0>>, <<1, 1>>, <<0, 1>>, <<-1, 1>>, <<-1, 0>> >>

PlanOk(moves) == [ok |-> TRUE, threw |-> FALSE, reason |-> "", moves |-> moves]

PlanReject(reason) == [ok |-> FALSE, threw |-> FALSE, reason |-> reason, moves |-> <<>>]

PlanThrew == [ok |-> FALSE, threw |-> TRUE, reason |-> "TypeError", moves |-> <<>>]

\* what one iteration of the ring loop does with the 0-based source and
\* target of its slot: "edge", "throw", "gate" end the call
WheelStep(sq, from0, to0) ==
  IF from0 = -1 \/ to0 = -1 THEN "edge"
  ELSE IF sq[from0 + 1] = 0 THEN "skip"
  ELSE IF ~coordsOfDefined(to0 + 1) THEN "throw"
  ELSE IF \E t \in {coordsOf(to0 + 1)} : isGateCoord(t.x, t.y) THEN "gate"
  ELSE "move"

\* slot k (1-based) of the ring around the point c: 1-based source and target
\* and what the loop does there
RingSlot(sq, from0, to0) ==
  [from |-> from0 + 1, to |-> to0 + 1, step |-> WheelStep(sq, from0, to0)]

RingSlots(sq, c) ==
  [k \in 1..Len(CW_RING) |->
     RingSlot(sq, indexOf(c.x + CW_RING[k][1], c.y + CW_RING[k][2]),
              indexOf(c.x + CW_RING[((k + Len(CW_RING) - 2) % Len(CW_RING)) + 1][1],
                      c.y + CW_RING[((k + Len(CW_RING) - 2) % Len(CW_RING)) + 1][2]))]

\* the slots whose piece the loop pushes onto the mapping
MovedSlots(slots) == SelectSeq(slots, LAMBDA s : s.step = "move")

\* the plan the loop builds from the slots it visits
RingPlan(slots) ==
  IF \E k \in DOMAIN slots : slots[k].step \in {"edge", "throw", "gate"}
    THEN IF slots[SetMin({k \in DOMAIN slots : slots[k].step \notin {"skip", "move"}})].step = "edge"
           THEN PlanReject("edge wheel - missing neighbor slot")
         ELSE IF slots[SetMin({k \in DOMAIN slots : slots[k].step \notin {"skip", "move"}})].step = "throw"
           THEN PlanThrew
         ELSE PlanReject("would move into gate")
  ELSE IF Cardinality({slots[k].to : k \in {j \in DOMAIN slots : slots[j].step = "move"}})
            # Len(MovedSlots(slots))
    THEN PlanReject("collision on rotation")
  ELSE PlanOk([n \in DOMAIN MovedSlots(slots) |->
                 [from |-> MovedSlots(slots)[n].from, to |-> MovedSlots(slots)[n].to]])

planWheelRotate(sq, wheelIdx1) ==
  IF sq[wheelIdx1] = 0 THEN PlanReject("empty center")
  ELSE IF TypeOf(sq[wheelIdx1]) # TypeId.Wheel THEN PlanReject("no wheel at center")
  ELSE IF ~coordsOfDefined(wheelIdx1) THEN PlanThrew
  ELSE RingPlan(RingSlots(sq, coordsOf(wheelIdx1)))

\* the checks of planBoatOnFlower from the two points on
BoatFlowerPlan(sq, fromIdx1, toIdx1, f, t) ==
  IF Max(Abs(f.x - t.x), Abs(f.y - t.y)) # 1 THEN PlanReject("target not adjacent")
  ELSE IF sq[toIdx1] # 0 THEN PlanReject("target occupied")
  ELSE IF isGateCoord(t.x, t.y) THEN PlanReject("cannot boat into gate")
  ELSE PlanOk(<< [from |-> fromIdx1, to |-> toIdx1] >>)

planBoatOnFlower(sq, fromIdx1, toIdx1) ==
  IF sq[fromIdx1] = 0 THEN PlanReject("no piece at source")
  ELSE IF ~IsFlowerType(TypeOf(sq[fromIdx1])) THEN PlanReject("boat source not a flower")
  ELSE IF isBloomingIndexThrows(fromIdx1) THEN PlanThrew
  ELSE IF ~isBloomingIndex(fromIdx1) THEN PlanReject("flower is in a gate")
  ELSE IF ~coordsOfDefined(toIdx1) THEN PlanThrew
  ELSE BoatFlowerPlan(sq, fromIdx1, toIdx1, coordsOf(fromIdx1), coordsOf(toIdx1))

RemoveReject(reason) == [ok |-> FALSE, threw |-> FALSE, reason |-> reason, remove |-> <<>>]

planBoatOnAccent(sq, accentIdx1, boatIdx1) ==
  IF sq[accentIdx1] = 0 THEN RemoveReject("no accent at target")
  ELSE IF ~isAccentType(TypeOf(sq[accentIdx1])) \/ TypeOf(sq[accentIdx1]) = TypeId.Boat
    THEN RemoveReject("target is not a non-boat accent")
  ELSE IF sq[boatIdx1] = 0 THEN RemoveReject("no boat tile provided")
  ELSE IF TypeOf(sq[boatIdx1]) # TypeId.Boat THEN RemoveReject("source is not a boat tile")
  ELSE [ok |-> TRUE, threw |-> FALSE, reason |-> "",
        remove |-> << [remove |-> accentIdx1], [remove |-> boatIdx1] >>]

(* ------------------------- Apply operations --------------------------- *)

Returned(h, ref) == [heap |-> h, ret |-> ref, threw |-> FALSE, error |-> ""]

\* a call that threw returns no board: ret is -1
Thrown(h, error) == [heap |-> h, ret |-> -1, threw |-> TRUE, error |-> error]

\* if (cond) b.setAtIndex(index, packed)
setAtIndexIf(cond, h, b, index, packed) == IF cond THEN setAtIndex(h, b, index, packed) ELSE h

\* an apply that leaves the mover on its source cell as well
applyPlannedArrangeKeepingSource(h, board, mv) ==
  Only({Returned(setAtIndex(c.heap, c.ref, mv.path[Len(mv.path)], getAtIndex(c.heap, c.ref, mv.from)),
                 c.ref) :
          c \in {clone(h, board)}})

applyPlannedArrange(h, board, mv) ==
  Only({Returned(setAtIndexIf(getAtIndex(c.heap, c.ref, mv.from) # 0,
                              setAtIndexIf(getAtIndex(c.heap, c.ref, final1) # 0,
                                           setAtIndex(c.heap, c.ref, mv.from, 0),
                                           c.ref, final1, 0),
                              c.ref, final1, getAtIndex(c.heap, c.ref, mv.from)),
                 c.ref) :
          c \in {clone(h, board)}, final1 \in {mv.path[Len(mv.path)]}})

applyArrange(h, board, from, path) ==
  Only({IF ok.threw THEN Thrown(h, ok.reason)
        ELSE IF ~ok.ok THEN Thrown(h, "arrange invalid")
        ELSE applyPlannedArrange(h, board, [from |-> from, path |-> path]) :
          ok \in {validateArrange(h[board], from, path)}})

\* first loop of applyWheel: clear the source of every planned move
RECURSIVE ClearSources(_, _, _, _)
ClearSources(h, b, moves, n) ==
  IF n > Len(moves) THEN h
  ELSE ClearSources(setAtIndex(h, b, moves[n].from, 0), b, moves, n + 1)

\* second loop of applyWheel: put each pulled piece on its target
RECURSIVE PlacePulled(_, _, _, _, _)
PlacePulled(h, b, moves, pulled, n) ==
  IF n > Len(moves) THEN h
  ELSE PlacePulled(setAtIndex(h, b, moves[n].to, pulled[moves[n].from]), b, moves, pulled, n + 1)

applyWheel(h, board, center) ==
  Only({IF plan.threw THEN Thrown(h, plan.reason)
        ELSE IF ~plan.ok THEN Thrown(h, "wheel invalid")
        ELSE Returned(PlacePulled(ClearSources(c.heap, c.ref, plan.moves, 1), c.ref, plan.moves,
                                  [f \in {plan.moves[n].from : n \in 1..Len(plan.moves)} |->
                                     getAtIndex(c.heap, c.ref, f)],
                                  1),
                      c.ref) :
          plan \in {planWheelRotate(h[board], center)},
          c \in {clone(h, board)}})

\* an apply that puts the flower on the target and leaves it on the source
applyBoatFlowerCopying(h, board, boat, from, to) ==
  Only({IF plan.threw THEN Thrown(h, plan.reason)
        ELSE IF ~plan.ok THEN Thrown(h, "boatFlower invalid")
        ELSE Returned(setAtIndex(c.heap, c.ref, to, getAtIndex(c.heap, c.ref, from)), c.ref) :
          plan \in {planBoatOnFlower(h[board], from, to)},
          c \in {clone(h, board)}})

applyBoatFlower(h, board, boat, from, to) ==
  Only({IF plan.threw THEN Thrown(h, plan.reason)
        ELSE IF ~plan.ok THEN Thrown(h, "boatFlower invalid")
        ELSE IF getAtIndex(c.heap, c.ref, to) # 0 THEN Thrown(c.heap, "boatFlower: target occupied")
        ELSE Returned(setAtIndexIf(getAtIndex(c.heap, c.ref, from) # 0,
                                   setAtIndex(c.heap, c.ref, from, 0),
                                   c.ref, to, getAtIndex(c.heap, c.ref, from)),
                      c.ref) :
          plan \in {planBoatOnFlower(h[board], from, to)},
          c \in {clone(h, board)}})

RECURSIVE RemoveAll(_, _, _, _)
RemoveAll(h, b, remove, n) ==
  IF n > Len(remove) THEN h
  ELSE RemoveAll(setAtIndex(h, b, remove[n].remove, 0), b, remove, n + 1)

\* an apply that does not look at the planner's verdict
applyBoatAccentUnchecked(h, board, boat, target) ==
  Only({Returned(RemoveAll(c.heap, c.ref, << [remove |-> target], [remove |-> boat] >>, 1), c.ref) :
          c \in {clone(h, board)}})

applyBoatAccent(h, board, boat, target) ==
  Only({IF ~res.ok THEN Thrown(h, "boatAccent invalid")
        ELSE Returned(RemoveAll(c.heap, c.ref, res.remove, 1), c.ref) :
          res \in {planBoatOnAccent(h[board], target, boat)},
          c \in {clone(h, board)}})

\* the squares of the board an apply operation returned
Result(r) == r.heap[r.ret]

\* a heap holding one board, at reference 0
OneBoard(sq) == [o \in {0} |-> sq]

(* -------------------------- Move generation --------------------------- *)

\* an ownership test that forgets the side
belongsToAnySide(packed, side) == packed # 0

belongsTo(packed, side) == packed # 0 /\ Side(OwnerOf(packed)) = side

owns(sq, idx1, side) == sq[idx1] # 0 /\ Side(OwnerOf(sq[idx1])) = side

isType(sq, idx1, t) == sq[idx1] # 0 /\ TypeOf(sq[idx1]) = t

\* the neighbours of the end of the path the walk has not seen
Unseen(i, path) ==
  SelectSeq(NEIGHBORS4_1[IF Len(path) > 0 THEN path[Len(path)] ELSE i],
            LAMBDA nxt : nxt \notin {i} \cup {path[k] : k \in 1..Len(path)})

\* every non-empty path the depth-first walk from cell i visits, in visiting order
RECURSIVE DfsPaths(_, _, _)
DfsPaths(i, limit, path) ==
  (IF Len(path) > 0 THEN <<path>> ELSE <<>>)
  \o (IF Len(path) = limit THEN <<>>
      ELSE Concat([k \in 1..Len(Unseen(i, path)) |->
                     DfsPaths(i, limit, Append(path, Unseen(i, path)[k]))]))

\* the cells the outer loop of generateLegalArrangeMoves runs the walk from
ArrangeSources(sq, side) ==
  {i \in Occupied(sq) : belongsTo(sq[i], side) /\ IsFlowerType(TypeOf(sq[i]))}

\* the paths visited from cell i, each with the verdict of validateArrange
Verdicts(sq, i) ==
  Only({[k \in 1..Len(paths) |->
           [from |-> i, path |-> paths[k], v |-> validateArrange(sq, i, paths[k])]] :
          paths \in {DfsPaths(i, MoveLimit(getPieceDescriptor(sq, i)), <<>>)}})

\* the walks of every source cell, in index order
ArrangeScan(sq, side) ==
  Only({Concat([n \in 1..Len(src) |-> Verdicts(sq, src[n])]) :
          src \in {SortedSeq(ArrangeSources(sq, side))}})

\* what a generator call gives: it threw, or it returned the list out
Generated(threw, out) == [threw |-> threw, out |-> IF threw THEN <<>> ELSE out]

generateLegalArrangeMoves(sq, side) ==
  IF \E i \in Occupied(sq) : belongsTo(sq[i], side) /\ getPieceDescriptorThrows(sq, i)
    THEN Generated(TRUE, <<>>)
  ELSE Only({Generated(\E k \in 1..Len(vs) : vs[k].v.threw,
                       Only({[k \in 1..Len(ok) |-> [from |-> ok[k].from, path |-> ok[k].path]] :
                               ok \in {SelectSeq(vs, LAMBDA e : e.v.ok)}})) :
               vs \in {ArrangeScan(sq, side)}})

\* the cells of side holding a piece of type t, in index order
OwnedOfType(sq, side, t) == SortedSeq({i \in Occupied(sq) : owns(sq, i, side) /\ isType(sq, i, t)})

generateWheelBonusMoves(sq, side) ==
  Only({Generated(\E n \in 1..Len(plans) : plans[n].plan.threw,
                  Only({[n \in 1..Len(ok) |-> [center |-> ok[n].center, moves |-> ok[n].plan.moves]] :
                          ok \in {SelectSeq(plans, LAMBDA e : e.plan.ok)}})) :
          plans \in {Only({[n \in 1..Len(ws) |->
                              [center |-> ws[n], plan |-> planWheelRotate(sq, ws[n])]] :
                             ws \in {OwnedOfType(sq, side, TypeId.Wheel)}})}})

\* the plan of every neighbour of the flower f, in the order of NEIGHBORS8_1
FlowerPlans(sq, f) ==
  [k \in 1..Len(NEIGHBORS8_1[f]) |->
     [from |-> f, to |-> NEIGHBORS8_1[f][k], plan |-> planBoatOnFlower(sq, f, NEIGHBORS8_1[f][k])]]

\* the two inner loops, which do not depend on the boat
BoatFlowerScan(sq) ==
  Only({Concat([m \in 1..Len(fs) |-> FlowerPlans(sq, fs[m])]) : 
          fs \in {SortedSeq({f \in Occupied(sq) : IsFlowerType(TypeOf(sq[f]))})}})

generateBoatFlowerBonusMoves(sq, side) ==
  IF OwnedOfType(sq, side, TypeId.Boat) = <<>> THEN Generated(FALSE, <<>>)
  ELSE Only({Generated(\E k \in 1..Len(plans) : plans[k].plan.threw,
                       Only({Concat([n \in 1..Len(bs) |->
                                       [k \in 1..Len(ok) |->
                                          [boat |-> bs[n], from |-> ok[k].from, to |-> ok[k].to]]]) :
                               ok \in {SelectSeq(plans, LAMBDA e : e.plan.ok)}})) :
               bs \in {OwnedOfType(sq, side, TypeId.Boat)},
               plans \in {BoatFlowerScan(sq)}})

\* the accents next to the boat b that the inner loop hands to the planner and
\* the planner accepts, each with its plan
AccentPlans(sq, b) ==
  SelectSeq([k \in 1..Len(NEIGHBORS8_1[b]) |->
               [target |-> NEIGHBORS8_1[b][k],
                res |-> planBoatOnAccent(sq, NEIGHBORS8_1[b][k], b)]],
            LAMBDA e : /\ sq[e.target] # 0
                       /\ isAccentType(TypeOf(sq[e.target]))
                       /\ TypeOf(sq[e.target]) # TypeId.Boat
                       /\ e.res.ok)

generateBoatAccentBonusMoves(sq, side) ==
  Only({Generated(FALSE,
                  Concat([n \in 1..Len(bs) |->
                            Only({[k \in 1..Len(ps) |->
                                     [boat |-> bs[n], target |-> ps[k].target,
                                      remove |-> [j \in 1..Len(ps[k].res.remove) |->
                                                    ps[k].res.remove[j].remove]]] :
                                    ps \in {AccentPlans(sq, bs[n])}})])) :
          bs \in {OwnedOfType(sq, side, TypeId.Boat)}})

applyMoveCloned(h, board, side, mv) ==
  IF mv.kind = "arrange" THEN applyPlannedArrange(h, board, [from |-> mv.from, path |-> mv.path])
  ELSE IF mv.kind = "wheel" THEN applyWheel(h, board, mv.center)
  ELSE IF mv.kind = "boatFlower" THEN applyBoatFlower(h, board, mv.boat, mv.from, mv.to)
  ELSE applyBoatAccent(h, board, mv.boat, mv.target)

\* safePush: keep the first occurrence of each candidate that applies without throwing
RECURSIVE SafePushAll(_, _, _, _)
SafePushAll(sq, side, cands, acc) ==
  IF cands = <<>> THEN acc
  ELSE SafePushAll(sq, side, Tail(cands),
                   IF \/ \E k \in 1..Len(acc) : acc[k] = Head(cands)
                      \/ applyMoveCloned(OneBoard(sq), 0, side, Head(cands)).threw
                     THEN acc
                   ELSE Append(acc, Head(cands)))

generateAllMoves(sq, side) ==
  Only({Generated(arr.threw \/ wh.threw \/ bf.threw,
                  [n \in 1..Len(arr.out) |-> [kind |-> "arrange", from |-> arr.out[n].from, path |-> arr.out[n].path]]
                  \o SafePushAll(sq, side,
                                 [n \in 1..Len(wh.out) |-> [kind |-> "wheel", center |-> wh.out[n].center]]
                                 \o SelectSeq([n \in 1..Len(bf.out) |->
                                                 [kind |-> "boatFlower", boat |-> bf.out[n].boat,
                                                  from |-> bf.out[n].from, to |-> bf.out[n].to]],
                                              LAMBDA m : m.from # m.to)
                                 \o [n \in 1..Len(ba.out) |-> [kind |-> "boatAccent", boat |-> ba.out[n].boat,
                                                        target |-> ba.out[n].target]],
                                 <<>>)) :
          arr \in {generateLegalArrangeMoves(sq, side)},
          wh \in {generateWheelBonusMoves(sq, side)},
          bf \in {generateBoatFlowerBonusMoves(sq, side)},
          ba \in {generateBoatAccentBonusMoves(sq, side)}})

(* ----------------------------- Evaluator ------------------------------ *)

\* Scores are exact rationals, kept as integers in units of 1/ScoreScale:
\* weights have one decimal, the phase is a multiple of 1/40, and aspiration
\* windows are 1/2 times powers of 2 and of 3/4.
ScoreScale == 400 * 16

MATERIAL ==
  [t \in 0..12 |->
     IF t \in {TypeId.R3, TypeId.W3} THEN 3
     ELSE IF t \in {TypeId.R4, TypeId.W4} THEN 4
     ELSE IF t \in {TypeId.R5, TypeId.W5} THEN 5
     ELSE IF t = TypeId.Lotus THEN 7
     ELSE IF t = TypeId.Orchid THEN 6
     ELSE 0]

pieceValue(t) == MATERIAL[t]

OwnedBy(sq, owner) == {i \in Occupied(sq) : OwnerOf(sq[i]) = owner}

material(sq) ==
  [host |-> SumFn([i \in OwnedBy(sq, Owner.Host) |-> pieceValue(TypeOf(sq[i]))]),
   guest |-> SumFn([i \in OwnedBy(sq, Owner.Guest) |-> pieceValue(TypeOf(sq[i]))])]

pieceCount(sq) ==
  [host |-> Cardinality(OwnedBy(sq, Owner.Host)),
   guest |-> Cardinality(OwnedBy(sq, Owner.Guest)),
   total |-> Cardinality(OwnedBy(sq, Owner.Host)) + Cardinality(OwnedBy(sq, Owner.Guest))]

harmonyDeg(sq) ==
  Only({[host |-> SumFn([n \in {n \in DOMAIN g : OwnerOf(sq[n]) = Owner.Host} |-> Len(g[n])]),
         guest |-> SumFn([n \in {n \in DOMAIN g : OwnerOf(sq[n]) = Owner.Guest} |-> Len(g[n])])] :
          g \in {buildHarmonyGraph(sq)}})

isCenter(i) == \E c \in {coordsOf(i - 1)} : Abs(c.x) + Abs(c.y) <= 3

centerCount(sq) ==
  [host |-> Cardinality({i \in OwnedBy(sq, Owner.Host) : isCenter(i)}),
   guest |-> Cardinality({i \in OwnedBy(sq, Owner.Guest) : isCenter(i)})]

maxPieces == 40

\* gamePhase * maxPieces
gamePhase40(sq) ==
  Only({IF pc > maxPieces THEN maxPieces ELSE pc : pc \in {pieceCount(sq).total}})

\* weights times 10
OPENING_WEIGHTS == [materialDiff |-> 4, pieceCountDiff |-> 18, harmonyDegDiff |-> 25, centerDiff |-> 12]

ENDGAME_WEIGHTS == [materialDiff |-> 18, pieceCountDiff |-> 7, harmonyDegDiff |-> 32, centerDiff |-> 4]

\* lerp(a, b, phase) times 10 * maxPieces
lerp400(a, b, phase40) == maxPieces * a + (b - a) * phase40

\* blendedWeights(phase) times 10 * maxPieces
blendedWeights(phase40) ==
  [f \in DOMAIN OPENING_WEIGHTS |-> lerp400(OPENING_WEIGHTS[f], ENDGAME_WEIGHTS[f], phase40)]

evaluateThrows(sq) == buildHarmonyGraphThrows(sq)

\* evaluate(board, pov) in units of 1/ScoreScale
evaluate(sq, pov) ==
  Only({(IF pov = "host" THEN 1 ELSE -1)
        * (ScoreScale \div (10 * maxPieces))
        * (W.materialDiff * (m.host - m.guest)
           + W.pieceCountDiff * (pc.host - pc.guest)
           + W.harmonyDegDiff * (h.host - h.guest)
           + W.centerDiff * (c.host - c.guest)) :
          m \in {material(sq)}, pc \in {pieceCount(sq)}, h \in {harmonyDeg(sq)},
          c \in {centerCount(sq)}, W \in {blendedWeights(gamePhase40(sq))}})

(* ------------------------------- Search ------------------------------- *)

NoMove == [kind |-> "none"]

NoEntry == [flag |-> "NONE"]

TT_CAP == 200000

MAX_PLY == 128

NegInfinity == -(10 ^ 9)

other(side) == IF side = "host" THEN "guest" ELSE "host"

\* The Zobrist key is the XOR of one random word per occupied (cell, type,
\* owner) and of the side word; it identifies this set (64-bit collisions
\* are not modelled).
boardKey(sq, side) ==
  [pieces |-> {<<i, TypeOf(sq[i]) - 1, OwnerOf(sq[i])>> : i \in Occupied(sq)},
   guest |-> (side = "guest")]

\* TT is a Map: a sequence of [key, val] in insertion order
TT_get(tt, key) ==
  IF \E n \in 1..Len(tt) : tt[n].key = key
  THEN tt[CHOOSE n \in 1..Len(tt) : tt[n].key = key].val
  ELSE NoEntry

\* a table that stores without dropping anything
TT_setUncapped(cap, tt, key, val) ==
  IF \E n \in 1..Len(tt) : tt[n].key = key
    THEN [n \in 1..Len(tt) |-> IF tt[n].key = key THEN [key |-> key, val |-> val] ELSE tt[n]]
  ELSE Append(tt, [key |-> key, val |-> val])

\* TT_set with the capacity cap: at the cap the oldest cap / 8 entries are
\* dropped (one entry when cap / 8 is 0: the loop deletes before it counts);
\* Map.set keeps the place of a key it already holds
TT_setAt(cap, tt, key, val) ==
  Only({IF \E n \in 1..Len(m) : m[n].key = key
          THEN [n \in 1..Len(m) |-> IF m[n].key = key THEN [key |-> key, val |-> val] ELSE m[n]]
        ELSE Append(m, [key |-> key, val |-> val]) :
          m \in {IF Len(tt) >= cap THEN SubSeq(tt, Max(cap \div 8, 1) + 1, Len(tt))
                 ELSE tt}})

TT_set(tt, key, val) == TT_setAt(TT_CAP, tt, key, val)

histKey(mv) == mv

HistoryGet(history, mv) == IF histKey(mv) \in DOMAIN history THEN history[histKey(mv)] ELSE 0

HistoryAdd(history, mv, amount) ==
  [k \in (DOMAIN history) \cup {histKey(mv)} |->
     IF k = histKey(mv) THEN HistoryGet(history, mv) + amount ELSE history[k]]

\* killers is an array of MAX_PLY pairs, each [null, null] at load time. The
\* model keeps the pairs that were written; every other ply holds [null, null].
NoKillers == <<>>

KillersAt(ks, ply) == IF ply \in DOMAIN ks THEN ks[ply] ELSE <<NoMove, NoMove>>

KillersPut(ks, ply, pair) ==
  [q \in (DOMAIN ks) \cup {ply} |-> IF q = ply THEN pair ELSE ks[q]]

\* the search context: the module-level tables, the number of clock reads so
\* far, and whether some node of the current depth iteration returned its
\* static evaluation because the clock had run out
Context(tt, killers, history) ==
  [TT |-> tt, killers |-> killers, history |-> history, checks |-> 0, cutoff |-> FALSE]

\* opts.maxMs && performance.now() - start > opts.maxMs : the budget is the
\* number of clock reads that still see time left
TimeCheck(st, opts) ==
  IF ~opts.limited THEN [st |-> st, up |-> FALSE]
  ELSE [st |-> [st EXCEPT !.checks = @ + 1], up |-> (st.checks >= opts.budget)]

\* -(|x| + |y|) of the landing square of an Arrange or a Boat-on-flower move
CenterBias(mv) ==
  IF mv.kind \notin {"arrange", "boatFlower"} THEN 0
  ELSE Only({-(Abs(c.x) + Abs(c.y)) :
               c \in {coordsOf((IF mv.kind = "arrange" THEN mv.path[Len(mv.path)] ELSE mv.to) - 1)}})

\* val of the child the application ap gives; a child that cannot be built or
\* evaluated is bad, its val is -1e9
ChildVal(ap, side) ==
  IF ap.threw \/ evaluateThrows(Result(ap)) THEN [bad |-> TRUE, val |-> 0]
  ELSE [bad |-> FALSE, val |-> evaluate(Result(ap), side)]

KillerBonus(pair, mv) ==
  IF pair[1] # NoMove /\ pair[1] = mv THEN 5000
  ELSE IF pair[2] # NoMove /\ pair[2] = mv THEN 3000
  ELSE 0

\* sort key of a move, in units of 1/ScoreScale
OrderKey(st, sq, side, mv, ply) ==
  Only({[bad |-> child.bad,
         key |-> child.val * 1000
                 + ScoreScale * (CenterBias(mv) * 10
                                 + (IF mv.kind = "arrange" THEN -Len(mv.path) ELSE 0)
                                 + KillerBonus(IF ply < MAX_PLY THEN KillersAt(st.killers, ply)
                                               ELSE <<NoMove, NoMove>>, mv)
                                 + HistoryGet(st.history, mv))] :
          child \in {ChildVal(applyMoveCloned(OneBoard(sq), 0, side, mv), side)}})

\* scored.sort((a, b) => b.key - a.key): a sorts before b when its key is
\* greater; a val of -1e9 puts a move below every move that has a real val
KeyGreater(a, b) == IF a.bad # b.bad THEN b.bad ELSE a.key > b.key

\* Array.prototype.sort is stable: the move at index i goes after the moves
\* whose key is greater and after the earlier moves whose key is the same.
\* The keys and the result are evaluated once, as tuples.
orderMoves(st, sq, side, moves, ply) ==
  Only({[p \in 1..Len(moves) |->
           moves[CHOOSE i \in 1..Len(moves) :
                   Cardinality({j \in 1..Len(moves) :
                                  \/ KeyGreater(keys[j], keys[i])
                                  \/ j < i /\ ~KeyGreater(keys[i], keys[j])}) = p - 1]] \o <<>> :
          keys \in {[n \in 1..Len(moves) |-> OrderKey(st, sq, side, moves[n], ply)] \o <<>>}})

\* moves.splice(i, 1) and unshift, when the stored best move is at index i > 0
PromoteBest(moves, tt) ==
  IF tt = NoEntry THEN moves
  ELSE IF tt.best = NoMove \/ \A n \in 1..Len(moves) : moves[n] # tt.best THEN moves
  ELSE Only({<<moves[i]>> \o SubSeq(moves, 1, i - 1) \o SubSeq(moves, i + 1, Len(moves)) :
               i \in {SetMin({n \in 1..Len(moves) : moves[n] = tt.best})}})

\* killer + history update on a beta cutoff
RecordCutoff(st, ply, mv, depth) ==
  [st EXCEPT !.killers = IF ply < MAX_PLY /\ (KillersAt(@, ply)[1] = NoMove \/ KillersAt(@, ply)[1] # mv)
                           THEN KillersPut(@, ply, <<mv, KillersAt(@, ply)[1]>>)
                         ELSE @,
             !.history = HistoryAdd(@, mv, depth * 100)]

SearchResult(st, score, best) == [st |-> st, score |-> score, best |-> best, threw |-> FALSE]

SearchThrew(st) == [st |-> st, score |-> 0, best |-> NoMove, threw |-> TRUE]

\* return { score: evaluate(board, side) }
StaticEval(st, sq, side) ==
  IF evaluateThrows(sq) THEN SearchThrew(st) ELSE SearchResult(st, evaluate(sq, side), NoMove)

RECURSIVE searchAlphaBeta(_, _, _, _, _, _, _, _)
RECURSIVE MoveLoop(_, _, _, _, _, _, _, _, _, _)

\* Late Move Reductions
NewDepth(depth, mv, idxInList) ==
  IF depth >= 3 /\ mv.kind = "arrange" /\ idxInList >= 6 THEN Max(1, (depth - 1) - 1)
  ELSE depth - 1

\* the body of the for-loop for move n; acc is what the moves before it left,
\* done once the loop has ended on a beta cutoff or an exception
MoveStep(acc, sq, side, depth, beta, opts, ply, moves, n) ==
  IF acc.done THEN acc
  ELSE
    Only({IF ap.threw THEN acc
          ELSE
            Only({IF res.threw THEN [acc EXCEPT !.st = res.st, !.threw = TRUE, !.done = TRUE]
                  ELSE [st |-> IF Max(-res.score, acc.localAlpha) >= beta
                                 THEN RecordCutoff(res.st, ply, moves[n], depth)
                               ELSE res.st,
                        best |-> IF -res.score > acc.value THEN moves[n] ELSE acc.best,
                        localAlpha |-> Max(-res.score, acc.localAlpha),
                        value |-> Max(-res.score, acc.value),
                        threw |-> FALSE,
                        done |-> Max(-res.score, acc.localAlpha) >= beta] :
                    res \in {searchAlphaBeta(acc.st, Result(ap), other(side),
                                             NewDepth(depth, moves[n], n - 1),
                                             -beta, -acc.localAlpha, opts, ply + 1)}}) :
            ap \in {applyMoveCloned(OneBoard(sq), 0, side, moves[n])}})

\* the for-loop over the ordered moves, up to and including move n
MoveLoop(st, sq, side, depth, alpha, beta, opts, ply, moves, n) ==
  IF n = 0
    THEN [st |-> st, best |-> NoMove, localAlpha |-> alpha, value |-> NegInfinity,
          threw |-> FALSE, done |-> FALSE]
  ELSE MoveStep(MoveLoop(st, sq, side, depth, alpha, beta, opts, ply, moves, n - 1),
                sq, side, depth, beta, opts, ply, moves, n)

\* "Store in TT" and return, once the loop over the moves has ended
StoreResult(loop, key, depth, alpha, beta) ==
  IF loop.threw THEN SearchThrew(loop.st)
  ELSE SearchResult([loop.st EXCEPT
                       !.TT = TT_set(@, key,
                                     [depth |-> depth, score |-> loop.value,
                                      flag |-> IF loop.value <= alpha THEN "UPPER"
                                               ELSE IF loop.value >= beta THEN "LOWER"
                                               ELSE "EXACT",
                                      best |-> loop.best])],
                    loop.value, loop.best)

\* the node from "if (depth === 0)" on, with the bounds the probe left
ExpandNode(st, sq, side, depth, alpha, beta, opts, ply, tt) ==
  IF depth = 0 THEN StaticEval(st, sq, side)
  ELSE Only({IF gen.threw THEN SearchThrew(st)
             ELSE IF Len(gen.out) = 0 THEN StaticEval(st, sq, side)
             ELSE StoreResult(MoveLoop(st, sq, side, depth, alpha, beta, opts, ply,
                                       PromoteBest(orderMoves(st, sq, side, gen.out, ply), tt),
                                       Len(gen.out)),
                              boardKey(sq, side), depth, alpha, beta) :
               gen \in {generateAllMoves(sq, side)}})

\* the node from the "TT probe" on; tt is TT.get(key)
ProbeNode(st, sq, side, depth, alpha, beta, opts, ply, tt) ==
  IF tt = NoEntry \/ tt.depth < depth
    THEN ExpandNode(st, sq, side, depth, alpha, beta, opts, ply, tt)
  ELSE IF tt.flag = "EXACT" THEN SearchResult(st, tt.score, tt.best)
  ELSE IF (IF tt.flag = "LOWER" THEN Max(alpha, tt.score) ELSE alpha)
          >= (IF tt.flag = "UPPER" /\ tt.score < beta THEN tt.score ELSE beta)
    THEN SearchResult(st, tt.score, tt.best)
  ELSE ExpandNode(st, sq, side, depth,
                  IF tt.flag = "LOWER" THEN Max(alpha, tt.score) ELSE alpha,
                  IF tt.flag = "UPPER" /\ tt.score < beta THEN tt.score ELSE beta,
                  opts, ply, tt)

searchAlphaBeta(st, sq, side, depth, alpha, beta, opts, ply) ==
  Only({IF tc.up THEN StaticEval([tc.st EXCEPT !.cutoff = TRUE], sq, side)
        ELSE ProbeNode(tc.st, sq, side, depth, alpha, beta, opts, ply,
                       TT_get(tc.st.TT, boardKey(sq, side))) :
          tc \in {TimeCheck(st, opts)}})

InitialWindow == ScoreScale \div 2

\* the while (true) loop of one depth iteration
RECURSIVE Aspirate(_, _, _, _, _, _, _, _)
Aspirate(st, sq, side, d, alpha, beta, window, opts) ==
  Only({IF result.threw \/ (result.score > alpha /\ result.score < beta)
          THEN [result |-> result, st |-> result.st, window |-> window]
        ELSE
          Only({IF tc.up THEN [result |-> result, st |-> tc.st, window |-> window * 2]
                ELSE Aspirate(tc.st, sq, side, d,
                              IF result.score <= alpha THEN alpha - window * 2 ELSE alpha,
                              IF result.score <= alpha THEN beta ELSE beta + window * 2,
                              window * 2, opts) :
                  tc \in {TimeCheck(result.st, opts)}}) :
          result \in {searchAlphaBeta(st, sq, side, d, alpha, beta, opts, 0)}})

\* the for (d = 1; d <= maxDepth; d++) loop, from depth d on. completed is the
\* best move of the last iteration in which no node hit the time cutoff,
\* cutAssigned tells that lastBest was assigned by an iteration in which one did.
RECURSIVE Deepen(_, _, _, _, _, _, _, _, _, _, _)
Deepen(st, sq, side, d, maxDepth, opts, lastBest, window, guess, completed, cutAssigned) ==
  IF d > maxDepth
  THEN [st |-> st, move |-> lastBest, threw |-> FALSE, completed |-> completed,
        cutAssigned |-> cutAssigned, depthReached |-> d - 1]
  ELSE
    Only({IF asp.result.threw
            THEN [st |-> asp.st, move |-> NoMove, threw |-> TRUE, completed |-> completed,
                  cutAssigned |-> cutAssigned, depthReached |-> d]
          ELSE
            Only({IF tc.up
                    THEN [st |-> tc.st, move |-> lastBest1, threw |-> FALSE,
                          completed |-> completed1, cutAssigned |-> cutAssigned1,
                          depthReached |-> d]
                  ELSE Deepen(tc.st, sq, side, d + 1, maxDepth, opts, lastBest1,
                              Max(InitialWindow, (asp.window * 3) \div 4),
                              asp.result.score, completed1, cutAssigned1) :
                    tc \in {TimeCheck(asp.st, opts)},
                    lastBest1 \in {IF asp.result.best # NoMove THEN asp.result.best ELSE lastBest},
                    completed1 \in {IF asp.result.best # NoMove /\ ~asp.st.cutoff
                                      THEN asp.result.best ELSE completed},
                    cutAssigned1 \in {cutAssigned \/ (asp.result.best # NoMove /\ asp.st.cutoff)}}) :
            asp \in {Aspirate([st EXCEPT !.cutoff = FALSE], sq, side, d,
                              guess - window, guess + window, window, opts)}})

\* TT.clear(); killers and history are left as the previous call left them.
\* start is the context the first iteration begins with.
searchIterativeDeepening(tt, killers, history, sq, side, maxDepth, opts) ==
  Only({[st |-> r.st, move |-> r.move, threw |-> r.threw, completed |-> r.completed,
         cutAssigned |-> r.cutAssigned, depthReached |-> r.depthReached,
         start |-> Context(<<>>, killers, history)] :
          r \in {Deepen(Context(<<>>, killers, history), sq, side, 1, maxDepth, opts,
                        NoMove, InitialWindow, 0, NoMove, FALSE)}})

pickBestMove(tt, killers, history, sq, side, depth, opts) ==
  searchIterativeDeepening(tt, killers, history, sq, side, depth, opts)

Budget(n) == [limited |-> TRUE, budget |-> n]

(* --------------------------- State machine ---------------------------- *)

\* heap      : the Board objects, reference -> squares
\* cur       : the reference of the board the program holds
\* side      : the side to move in the self-play loop
\* config    : DEPTH and whether TIMEMS is set
\* TT, killers, history : the module-level tables of the engine
\* plies     : self-play plies played
\* last      : the last call, its arguments and its outcome
VARIABLES heap, cur, side, config, TT, killers, history, plies, last

vars == <<heap, cur, side, config, TT, killers, history, plies, last>>

MaxPieces == 2

MaxPath == 2

MaxDepth == 2

MaxClock == 3

MaxPlies == 1

ClockStep == 10

\* the cells the rule calls are exercised on: the centre, its right-hand
\* neighbour, and the last two cells of the grid
Cells == {125, 126, 248, 249}

Pieces ==
  {packPiece(TypeId.R3, Owner.Host), packPiece(TypeId.W3, Owner.Guest), packPiece(TypeId.Lotus, Owner.Guest),
   packPiece(TypeId.Wheel, Owner.Host), packPiece(TypeId.Boat, Owner.Host), packPiece(TypeId.Rock, Owner.Guest)}

Sides == {"host", "guest"}

\* the number of clock reads that find time left before TIMEMS has run out
Clocks == {k * ClockStep : k \in 0..MaxClock}

Paths == UNION {[1..n -> Cells] : n \in 1..MaxPath}

InSetup == last.op \in {"new Board", "setAtIndex"}

Init ==
  /\ heap = NewBoard(<<>>, EmptySquares).heap
  /\ cur = NewBoard(<<>>, EmptySquares).ref
  /\ side = "host"
  /\ config = [depth |-> 1, limited |-> FALSE]
  /\ TT = <<>>
  /\ killers = NoKillers
  /\ history = <<>>
  /\ plies = 0
  /\ last = [op |-> "new Board"]

\* board.setAtIndex(c, p) while the position is being set up
Place(c, p) ==
  /\ InSetup
  /\ getAtIndex(heap, cur, c) = 0
  /\ Cardinality(Occupied(heap[cur])) < MaxPieces
  /\ heap' = setAtIndex(heap, cur, c, p)
  /\ last' = [op |-> "setAtIndex"]
  /\ UNCHANGED <<cur, side, config, TT, killers, history, plies>>

Validate(from, path) ==
  /\ InSetup
  /\ last' = [op |-> "validateArrange", from |-> from, path |-> path,
              result |-> validateArrange(heap[cur], from, path)]
  /\ UNCHANGED <<heap, cur, side, config, TT, killers, history, plies>>

\* generateLegalArrangeMoves(board, s), and the board each returned move gives
Generate(s) ==
  /\ InSetup
  /\ \E g \in {generateLegalArrangeMoves(heap[cur], s)} :
       last' = [op |-> "generateLegalArrangeMoves", side |-> s, threw |-> g.threw,
                moves |-> g.out,
                applied |-> [n \in 1..Len(g.out) |->
                               Result(applyPlannedArrange(heap, cur, g.out[n]))]]
  /\ UNCHANGED <<heap, cur, side, config, TT, killers, history, plies>>

\* the Wheel and Boat generators
GenerateBonus(s) ==
  /\ InSetup
  /\ \E wh \in {generateWheelBonusMoves(heap[cur], s)},
        bf \in {generateBoatFlowerBonusMoves(heap[cur], s)},
        ba \in {generateBoatAccentBonusMoves(heap[cur], s)} :
       last' = [op |-> "generateBonusMoves", side |-> s, threw |-> wh.threw \/ bf.threw,
                wheel |-> IF wh.threw \/ bf.threw THEN <<>> ELSE wh.out,
                boatFlower |-> IF wh.threw \/ bf.threw THEN <<>> ELSE bf.out,
                boatAccent |-> IF wh.threw \/ bf.threw THEN <<>> ELSE ba.out]
  /\ UNCHANGED <<heap, cur, side, config, TT, killers, history, plies>>

PlanWheel(center) ==
  /\ InSetup
  /\ last' = [op |-> "planWheelRotate", center |-> center,
              result |-> planWheelRotate(heap[cur], center)]
  /\ UNCHANGED <<heap, cur, side, config, TT, killers, history, plies>>

PlanBoatFlower(from, to) ==
  /\ InSetup
  /\ last' = [op |-> "planBoatOnFlower", from |-> from, to |-> to,
              result |-> planBoatOnFlower(heap[cur], from, to)]
  /\ UNCHANGED <<heap, cur, side, config, TT, killers, history, plies>>

PlanBoatAccent(accent, boat) ==
  /\ InSetup
  /\ last' = [op |-> "planBoatOnAccent", accent |-> accent, boat |-> boat,
              result |-> planBoatOnAccent(heap[cur], accent, boat)]
  /\ UNCHANGED <<heap, cur, side, config, TT, killers, history, plies>>

\* the record of an apply call: its input reference and what the call
\* returned or threw
Applied(op, args, r) ==
  [op |-> op, args |-> args, input |-> cur, ret |-> r.ret, threw |-> r.threw,
   error |-> r.error]

ApplyPlannedArrange(from, path) ==
  /\ InSetup
  /\ \E r \in {applyPlannedArrange(heap, cur, [from |-> from, path |-> path])} :
       /\ heap' = r.heap
       /\ last' = Applied("applyPlannedArrange", [from |-> from, path |-> path], r)
  /\ UNCHANGED <<cur, side, config, TT, killers, history, plies>>

ApplyArrange(from, path) ==
  /\ InSetup
  /\ \E r \in {applyArrange(heap, cur, from, path)} :
       /\ heap' = r.heap
       /\ last' = Applied("applyArrange", [from |-> from, path |-> path], r)
  /\ UNCHANGED <<cur, side, config, TT, killers, history, plies>>

ApplyWheel(center) ==
  /\ InSetup
  /\ \E r \in {applyWheel(heap, cur, center)} :
       /\ heap' = r.heap
       /\ last' = Applied("applyWheel", [center |-> center], r)
  /\ UNCHANGED <<cur, side, config, TT, killers, history, plies>>

ApplyBoatFlower(boat, from, to) ==
  /\ InSetup
  /\ \E r \in {applyBoatFlower(heap, cur, boat, from, to)} :
       /\ heap' = r.heap
       /\ last' = Applied("applyBoatFlower", [boat |-> boat, from |-> from, to |-> to], r)
  /\ UNCHANGED <<cur, side, config, TT, killers, history, plies>>

ApplyBoatAccent(boat, target) ==
  /\ InSetup
  /\ \E r \in {applyBoatAccent(heap, cur, boat, target)} :
       /\ heap' = r.heap
       /\ last' = Applied("applyBoatAccent", [boat |-> boat, target |-> target], r)
  /\ UNCHANGED <<cur, side, config, TT, killers, history, plies>>

Next ==
  \/ \E c \in Cells, p \in Pieces : Place(c, p)
  \/ \E from \in Cells, path \in Paths : Validate(from, path)
  \/ \E s \in Sides : Generate(s)
  \/ \E s \in Sides : GenerateBonus(s)
  \/ \E center \in Cells : PlanWheel(center)
  \/ \E from \in Cells, to \in Cells : PlanBoatFlower(from, to)
  \/ \E accent \in Cells, boat \in Cells : PlanBoatAccent(accent, boat)
  \/ \E from \in Cells, path \in Paths : ApplyPlannedArrange(from, path)
  \/ \E from \in Cells, path \in Paths : ApplyArrange(from, path)
  \/ \E center \in Cells : ApplyWheel(center)
  \/ \E boat \in Cells, from \in Cells, to \in Cells : ApplyBoatFlower(boat, from, to)
  \/ \E boat \in Cells, target \in Cells : ApplyBoatAccent(boat, target)

Spec == Init /\ [][Next]_vars

(* ------------------------ Search and self-play ------------------------ *)

InitSearch ==
  /\ heap = NewBoard(<<>>, EmptySquares).heap
  /\ cur = NewBoard(<<>>, EmptySquares).ref
  /\ side \in Sides
  /\ config \in [depth : 1..MaxDepth, limited : BOOLEAN]
  /\ TT = <<>>
  /\ killers = NoKillers
  /\ history = <<>>
  /\ plies = 0
  /\ last = [op |-> "new Board"]

\* a pickBestMove call: n clock reads still find time left when a limit is
\* set; the call leaves the tables behind, and the record of the call
CallPickBestMove(op, n) ==
  /\ config.limited \/ n = 0
  /\ \E r \in {pickBestMove(TT, killers, history, heap[cur], side, config.depth,
                            IF config.limited THEN Budget(n)
                            ELSE [limited |-> FALSE, budget |-> 0])} :
       /\ TT' = r.st.TT
       /\ killers' = r.st.killers
       /\ history' = r.st.history
       /\ last' = [op |-> op, move |-> r.move, threw |-> r.threw, completed |-> r.completed,
                   cutAssigned |-> r.cutAssigned, depthReached |-> r.depthReached,
                   start |-> r.start]
  /\ UNCHANGED <<heap, cur, side, config, plies>>

\* "Search once" of main
SearchOnce(n) ==
  /\ InSetup
  /\ CallPickBestMove("searchOnce", n)

\* the pickBestMove call of the self-play loop
PickBestMove(n) ==
  /\ last.op \in {"searchOnce", "applyAnyMove"}
  /\ ~last.threw
  /\ plies < MaxPlies
  /\ CallPickBestMove("pickBestMove", n)

\* b = applyAnyMove(b, side, mv); side flips. The loop breaks on a null move.
ApplyAnyMove ==
  /\ last.op = "pickBestMove"
  /\ ~last.threw
  /\ last.move # NoMove
  /\ \E r \in {applyMoveCloned(heap, cur, side, last.move)} :
       /\ heap' = IF r.threw THEN heap ELSE [o \in {r.ret} |-> r.heap[r.ret]]
       /\ cur' = IF r.threw THEN cur ELSE r.ret
       /\ last' = [op |-> "applyAnyMove", threw |-> r.threw]
  /\ side' = other(side)
  /\ plies' = plies + 1
  /\ UNCHANGED <<config, TT, killers, history>>

NextSearch ==
  \* the search is run on two cells of the middle row, three steps apart, and
  \* on the last cell of the grid
  \/ \E c \in {120, 124, 249},
        p \in {packPiece(TypeId.Lotus, Owner.Host), packPiece(TypeId.Lotus, Owner.Guest)} :
       Place(c, p)
  \/ \E n \in Clocks : SearchOnce(n)
  \/ \E n \in Clocks : PickBestMove(n)
  \/ ApplyAnyMove

SpecSearch == InitSearch /\ [][NextSearch]_vars

(* ------------------- Geometry and harmony-cycle calls ----------------- *)

MaxCoord == 10

Coords == (-MaxCoord)..MaxCoord

Gardens == {"R", "W"}

Numbers == {3, 4, 5}

CallIndexOf(x, y) ==
  /\ last' = [op |-> "indexOf", x |-> x, y |-> y, result |-> indexOf(x, y)]
  /\ UNCHANGED <<heap, cur, side, config, TT, killers, history, plies>>

CallCoordsOf(index) ==
  /\ last' = [op |-> "coordsOf", index |-> index, result |-> coordsOf(index)]
  /\ UNCHANGED <<heap, cur, side, config, TT, killers, history, plies>>

CallHarmoniousPair(aGarden, aNum, bGarden, bNum) ==
  /\ last' = [op |-> "harmoniousPair", aGarden |-> aGarden, aNum |-> aNum,
              bGarden |-> bGarden, bNum |-> bNum,
              result |-> harmoniousPair(aGarden, aNum, bGarden, bNum),
              clash |-> isClashPair(aGarden, aNum, bGarden, bNum)]
  /\ UNCHANGED <<heap, cur, side, config, TT, killers, history, plies>>

NextPure ==
  \/ \E x \in Coords, y \in Coords : CallIndexOf(x, y)
  \/ \E index \in 0..(NUM_SQUARES - 1) : CallCoordsOf(index)
  \/ \E aGarden \in Gardens, aNum \in Numbers, bGarden \in Gardens, bNum \in Numbers :
       CallHarmoniousPair(aGarden, aNum, bGarden, bNum)

SpecPure == Init /\ [][NextPure]_vars

(* ----------------------- Rule calls on set positions ------------------ *)

MaxWalk == 3

MaxAccents == 1

\* the board with the pieces of f (cell :> piece) and nothing else
BoardOf(f) == [i \in 1..TOTAL_POINTS |-> IF i \in DOMAIN f THEN f[i] ELSE 0]

\* the cell of the point (x, y)
CellAt(x, y) == indexOf(x, y) + 1

\* one basic flower on a point of the horizontal midline
MidlineScenes ==
  {BoardOf(CellAt(x, 0) :> p) :
     x \in (-8)..8, p \in {packPiece(TypeId.R3, Owner.Host), packPiece(TypeId.W4, Owner.Guest)}}

\* Host R3 on the centre point and an Orchid of either side within two
\* columns of it
OrchidScenes ==
  {BoardOf(CellAt(0, 0) :> packPiece(TypeId.R3, Owner.Host) @@ CellAt(x, y) :> packPiece(TypeId.Orchid, o)) :
     x \in (-1)..2, y \in (-1)..1, o \in {Owner.Host, Owner.Guest}}

\* Host R3 on the gate (-8,0) or on a cell beside it, alone or with a
\* Guest W3 or a Host R4 two points to the right of the gate
GateScenes ==
  {BoardOf(c :> packPiece(TypeId.R3, Owner.Host)) :
     c \in {CellAt(-8, 0) - 1, CellAt(-8, 0), CellAt(-7, 0)}}
  \cup {BoardOf(c :> packPiece(TypeId.R3, Owner.Host) @@ CellAt(-6, 0) :> q) :
          c \in {CellAt(-8, 0), CellAt(-7, 0)},
          q \in {packPiece(TypeId.W3, Owner.Guest), packPiece(TypeId.R4, Owner.Host)}}

\* a Host Wheel on an inner point with a Host R3 or a Guest W4 on each of the
\* 8 points around it
WheelScenes ==
  {BoardOf([c \in {CellAt(w[1] + dx, w[2] + dy) : dx \in {-1, 0, 1}, dy \in {-1, 0, 1}} |->
              IF c = CellAt(w[1], w[2]) THEN packPiece(TypeId.Wheel, Owner.Host) ELSE q]) :
     w \in {<<0, 0>>, <<3, -2>>},
     q \in {packPiece(TypeId.R3, Owner.Host), packPiece(TypeId.W4, Owner.Guest)}}

\* a Guest Lotus alone on the midline, two points from the centre
LotusScenes ==
  {BoardOf(CellAt(x, 0) :> packPiece(TypeId.Lotus, Owner.Guest)) : x \in {-2, 2}}

Scenes == MidlineScenes \cup OrchidScenes \cup GateScenes \cup WheelScenes \cup LotusScenes

\* the walks of n orthogonal unit steps from cell c, squares revisited or not
RECURSIVE Walks(_, _)
Walks(c, n) ==
  IF n = 0 THEN {<<>>}
  ELSE UNION {{<<NEIGHBORS4_1[c][k]>> \o w : w \in Walks(NEIGHBORS4_1[c][k], n - 1)} :
                k \in 1..Len(NEIGHBORS4_1[c])}

\* the one-square paths from cell c onto another piece of the board
Jumps(sq, c) == {<<to>> : to \in Occupied(sq) \ {c}}

\* the program holds one board, drawn from scenes, and has called nothing yet
InitOn(scenes) ==
  /\ \E sq \in scenes : heap = OneBoard(sq)
  /\ cur = 0
  /\ side = "host"
  /\ config = [depth |-> 1, limited |-> FALSE]
  /\ TT = <<>>
  /\ killers = NoKillers
  /\ history = <<>>
  /\ plies = 0
  /\ last = [op |-> "new Board"]

DescribeCell(index) ==
  /\ InSetup
  /\ last' = [op |-> "getPieceDescriptor", index |-> index,
              threw |-> getPieceDescriptorThrows(heap[cur], index),
              result |-> IF getPieceDescriptorThrows(heap[cur], index) THEN [kind |-> "none"]
                         ELSE getPieceDescriptor(heap[cur], index)]
  /\ UNCHANGED <<heap, cur, side, config, TT, killers, history, plies>>

DetectClash ==
  /\ InSetup
  /\ last' = [op |-> "detectAnyClash", result |-> detectAnyClashOutcome(heap[cur])]
  /\ UNCHANGED <<heap, cur, side, config, TT, killers, history, plies>>

BuildGraph ==
  /\ InSetup
  /\ last' = [op |-> "buildHarmonyGraph", threw |-> buildHarmonyGraphThrows(heap[cur]),
              result |-> IF buildHarmonyGraphThrows(heap[cur]) THEN <<>>
                         ELSE buildHarmonyGraph(heap[cur])]
  /\ UNCHANGED <<heap, cur, side, config, TT, killers, history, plies>>

NextScenes ==
  \/ \E index \in Occupied(heap[cur]) : DescribeCell(index)
  \/ DetectClash
  \/ BuildGraph
  \/ \E from \in Occupied(heap[cur]), n \in 1..MaxWalk :
       \E path \in Walks(from, n) \cup Jumps(heap[cur], from) : Validate(from, path)
  \/ \E center \in Occupied(heap[cur]) : PlanWheel(center)

SpecScenes == InitOn(Scenes) /\ [][NextScenes]_vars

(* ---------------------- Harmony graph under accents ------------------ *)

\* Host R3 on the centre point and Host R4 three points to its right, or
\* three points above it
HarmonyScenes ==
  {BoardOf(CellAt(0, 0) :> packPiece(TypeId.R3, Owner.Host) @@ CellAt(b[1], b[2]) :> packPiece(TypeId.R4, Owner.Host)) :
     b \in {<<3, 0>>, <<0, 3>>}}

\* the cells an accent is put on
AccentCells == {CellAt(x, y) : x \in (-2)..5, y \in (-2)..5}

AccentPieces == {packPiece(TypeId.Rock, Owner.Guest), packPiece(TypeId.Knotweed, Owner.Guest)}

Accents(sq) == {i \in Occupied(sq) : TypeOf(sq[i]) \in {TypeId.Rock, TypeId.Knotweed}}

\* board.setAtIndex(c, p) with a Rock or a Knotweed on an empty cell
PutAccent(c, p) ==
  /\ InSetup
  /\ getAtIndex(heap, cur, c) = 0
  /\ Cardinality(Accents(heap[cur])) < MaxAccents
  /\ heap' = setAtIndex(heap, cur, c, p)
  /\ last' = [op |-> "setAtIndex"]
  /\ UNCHANGED <<cur, side, config, TT, killers, history, plies>>

\* board.setAtIndex(c, 0) on a cell that holds a Rock or a Knotweed
TakeAccent(c) ==
  /\ InSetup
  /\ c \in Accents(heap[cur])
  /\ heap' = setAtIndex(heap, cur, c, 0)
  /\ last' = [op |-> "setAtIndex"]
  /\ UNCHANGED <<cur, side, config, TT, killers, history, plies>>

NextHarmony ==
  \/ \E c \in AccentCells, p \in AccentPieces : PutAccent(c, p)
  \/ \E c \in AccentCells : TakeAccent(c)
  \/ BuildGraph

SpecHarmony == InitOn(HarmonyScenes) /\ [][NextHarmony]_vars

(* ------------------------- Play of generated moves -------------------- *)

MaxPlays == 2

\* boards with empty gates and no Clash: a Host Boat with a Host R3 beside
\* the gate (-8,0); a Host Boat with a Host R3 and a Guest W3 one row apart;
\* a Host Wheel with a Host R3 and a Guest W3 on its ring; a Host Boat beside
\* a Guest Rock, with a Host R3 beside a Guest W4
PlayScenes ==
  {BoardOf(CellAt(-3, -3) :> packPiece(TypeId.Boat, Owner.Host)
           @@ CellAt(-7, 0) :> packPiece(TypeId.R3, Owner.Host)
           @@ CellAt(2, 2) :> packPiece(TypeId.W4, Owner.Guest)),
   BoardOf(CellAt(-3, -3) :> packPiece(TypeId.Boat, Owner.Host)
           @@ CellAt(0, 0) :> packPiece(TypeId.R3, Owner.Host)
           @@ CellAt(3, 1) :> packPiece(TypeId.W3, Owner.Guest)),
   BoardOf(CellAt(0, 0) :> packPiece(TypeId.Wheel, Owner.Host)
           @@ CellAt(0, -1) :> packPiece(TypeId.R3, Owner.Host)
           @@ CellAt(1, 1) :> packPiece(TypeId.W3, Owner.Guest)),
   BoardOf(CellAt(0, -2) :> packPiece(TypeId.Boat, Owner.Host)
           @@ CellAt(1, -2) :> packPiece(TypeId.Rock, Owner.Guest)
           @@ CellAt(0, 0) :> packPiece(TypeId.R3, Owner.Host)
           @@ CellAt(1, 0) :> packPiece(TypeId.W4, Owner.Guest))}

\* b = applyAnyMove(b, side, mv); side flips
PlayMove(mv) ==
  /\ plies < MaxPlays
  /\ \E r \in {applyMoveCloned(heap, cur, side, mv)} :
       /\ ~r.threw
       /\ heap' = [o \in {r.ret} |-> r.heap[r.ret]]
       /\ cur' = r.ret
  /\ last' = [op |-> "applyAnyMove", threw |-> FALSE, move |-> mv]
  /\ side' = other(side)
  /\ plies' = plies + 1
  /\ UNCHANGED <<config, TT, killers, history>>

\* the move played is any move generateAllMoves offers to the side to move
NextPlay ==
  \E gen \in {generateAllMoves(heap[cur], side)} :
    \E k \in 1..Len(gen.out) : PlayMove(gen.out[k])

SpecPlay == InitOn(PlayScenes) /\ [][NextPlay]_vars

(* --------------------------- Harmony rings ---------------------------- *)

MaxGaps == 1

\* Host R3 and Host R4 on the points ps, alternating along rows and columns
\* of points two apart
FlowersOn(ps) ==
  BoardOf([c \in {CellAt(p[1], p[2]) : p \in ps} |->
             IF ((coordsOf(c - 1).x + coordsOf(c - 1).y + 32) \div 2) % 2 = 0
               THEN packPiece(TypeId.R3, Owner.Host)
             ELSE packPiece(TypeId.R4, Owner.Host)])

\* the four corners of a rectangle with even sides, around the centre or
\* beside it
RectScenes ==
  {FlowersOn({<<x1, y1>>, <<x1 + w, y1>>, <<x1, y1 + h>>, <<x1 + w, y1 + h>>}) :
     x1 \in {-3, -1, 1}, y1 \in {-3, -1, 1}, w \in {2, 4}, h \in {2}}

\* a grid of 4 by 3 or 3 by 4 points two apart, laid so that the centre is
\* inside one of its middle squares, with up to MaxGaps points left out
GridScenes ==
  UNION {{FlowersOn(ps \ gaps) : gaps \in {gs \in SUBSET ps : Cardinality(gs) <= MaxGaps}} :
           ps \in {{-3, -1, 1, 3} \X {-1, 1, 3}, {-3, -1, 1, 3} \X {-3, -1, 1},
                   {-1, 1, 3} \X {-3, -1, 1, 3}, {-3, -1, 1} \X {-3, -1, 1, 3}}}

RingScenes == RectScenes \cup GridScenes

FindRings ==
  /\ InSetup
  /\ last' = [op |-> "findHarmonyRings", threw |-> buildHarmonyGraphThrows(heap[cur]),
              result |-> IF buildHarmonyGraphThrows(heap[cur]) THEN <<>>
                         ELSE findHarmonyRings(heap[cur])]
  /\ UNCHANGED <<heap, cur, side, config, TT, killers, history, plies>>

NextRings ==
  \/ FindRings
  \/ BuildGraph

SpecRings == InitOn(RingScenes) /\ [][NextRings]_vars

(* ------------------------ Transposition table ------------------------- *)

\* the capacity the table is run at, in place of TT_CAP, and the number of
\* distinct keys stored
MaxTable == 16

MaxKeys == 20

\* an empty table; count is the number of distinct keys stored so far
InitTable ==
  /\ heap = OneBoard(EmptySquares)
  /\ cur = 0
  /\ side = "host"
  /\ config = [depth |-> 1, limited |-> FALSE]
  /\ TT = <<>>
  /\ killers = NoKillers
  /\ history = <<>>
  /\ plies = 0
  /\ last = [op |-> "TT.clear", count |-> 0]

\* TT_set(key, val) on a table of capacity MaxTable; before is the table the
\* call found
CallTTSet(key) ==
  /\ last.op \in {"TT.clear", "TT_set"}
  /\ TT' = TT_setAt(MaxTable, TT, key, [flag |-> "EXACT"])
  /\ last' = [op |-> "TT_set", key |-> key, before |-> TT, count |-> Max(key, last.count)]
  /\ UNCHANGED <<heap, cur, side, config, killers, history, plies>>

\* the key stored is the next new key, or the oldest or the newest key of the table
NextTable ==
  \/ last.count < MaxKeys /\ CallTTSet(last.count + 1)
  \/ Len(TT) > 0 /\ CallTTSet(TT[1].key)
  \/ Len(TT) > 0 /\ CallTTSet(TT[Len(TT)].key)

SpecTable == InitTable /\ [][NextTable]_vars

(* ------------------------------ Properties ---------------------------- *)

ApplyOps == {"applyPlannedArrange", "applyWheel", "applyBoatFlower", "applyBoatAccent"}

PickOps == {"searchOnce", "pickBestMove"}

\* C1: every {from, path} generateLegalArrangeMoves(board, side) returns has
\* a basic flower, Lotus or Orchid of `side` on `from`, and validateArrange
\* accepts it on that same board.
C1_GeneratedArrangeIsLegal ==
  (last.op = "generateLegalArrangeMoves" /\ ~last.threw) =>
    \A n \in 1..Len(last.moves) :
      /\ heap[cur][last.moves[n].from] # 0
      /\ IsFlowerType(TypeOf(heap[cur][last.moves[n].from]))
      /\ Side(OwnerOf(heap[cur][last.moves[n].from])) = last.side
      /\ validateArrange(heap[cur], last.moves[n].from, last.moves[n].path).ok

\* a generator call that returned moves for a side while the other side has a
\* flower on the board too
C1_Witness ==
  /\ last.op = "generateLegalArrangeMoves"
  /\ ~last.threw
  /\ Len(last.moves) > 0
  /\ \E i \in Occupied(heap[cur]) :
       IsFlowerType(TypeOf(heap[cur][i])) /\ Side(OwnerOf(heap[cur][i])) # last.side

\* C2: applying a move generateLegalArrangeMoves returned gives the board
\* validateArrange simulated, and detectAnyClash is false on it.
C2_GeneratedArrangeMakesNoClash ==
  (last.op = "generateLegalArrangeMoves" /\ ~last.threw) =>
    \A n \in 1..Len(last.moves) :
      /\ last.applied[n] = Simulated(heap[cur], last.moves[n].from,
                                     last.moves[n].path[Len(last.moves[n].path)],
                                     heap[cur][last.moves[n].from])
      /\ detectAnyClashOutcome(last.applied[n]) = "false"

\* a generator call on a board with a red and a white 3 that returned a move,
\* while validateArrange turned another walk of the same flower down for a Clash
C2_Witness ==
  /\ last.op = "generateLegalArrangeMoves"
  /\ ~last.threw
  /\ \E n \in 1..Len(last.moves) :
       /\ Cardinality(BloomingBasics(last.applied[n])) = 2
       /\ \E vs \in {Verdicts(heap[cur], last.moves[n].from)} :
            \E k \in 1..Len(vs) : vs[k].v.reason = "move would create a Clash"

\* C3: with a time budget, the move pickBestMove returns is the move of the
\* last depth iteration in which no node hit the time cutoff; a partially
\* searched depth never replaces it.
C3_ReturnsLastCompletedDepth ==
  (last.op \in PickOps /\ config.limited /\ ~last.threw) =>
    /\ ~last.cutAssigned
    /\ last.move = last.completed

\* C4: at the start of every pickBestMove call the transposition table, the
\* killer table and the history table are empty.
C4_TablesEmptyAtStart ==
  last.op \in PickOps =>
    /\ last.start.TT = <<>>
    /\ last.start.killers = NoKillers
    /\ last.start.history = <<>>

\* C5: applyPlannedArrange, applyWheel, applyBoatFlower and applyBoatAccent
\* leave every cell of the board passed in as it was, whether they return or
\* throw, and a returned board is another object than the input.
C5_ApplyLeavesInputUntouched ==
  [][last'.op \in ApplyOps =>
       /\ cur \in DOMAIN heap'
       /\ heap'[cur] = heap[cur]
       /\ ~last'.threw => (last'.ret # cur /\ last'.ret \in DOMAIN heap')]_vars

\* an apply call that returned a board whose cells differ from the input's
C5_Witness ==
  /\ last.op \in ApplyOps
  /\ ~last.threw
  /\ heap[last.ret] # heap[last.input]

\* C6: for board indices in 1..249, validateArrange, planWheelRotate,
\* planBoatOnFlower and planBoatOnAccent return a result value and never throw.
C6_PlannersNeverThrow ==
  last.op \in {"validateArrange", "planWheelRotate", "planBoatOnFlower", "planBoatOnAccent"} =>
    ~last.result.threw

\* C7: pickBestMove and the generators it calls never throw on a board whose
\* cells are each empty or a valid packed piece, wherever the pieces stand.
C7_SearchNeverThrows ==
  last.op \in PickOps \cup {"generateLegalArrangeMoves", "generateBonusMoves"} => ~last.threw

\* C8: without a time limit pickBestMove returns null exactly when the side to
\* move has no generated move, and otherwise returns one of the generated moves.
C8_NullIffNoMoves ==
  (last.op \in PickOps /\ ~config.limited) =>
    /\ ~last.threw
    /\ \E gen \in {generateAllMoves(heap[cur], side)} :
         /\ ~gen.threw
         /\ last.move = NoMove <=> Len(gen.out) = 0
         /\ last.move # NoMove => \E n \in 1..Len(gen.out) : gen.out[n] = last.move

\* C9: applyWheel, applyBoatFlower and applyBoatAccent throw whenever their
\* planner rejects the request on the supplied board and return a board only
\* when the planner accepts it.
C9_ApplyThrowsIffPlannerRejects ==
  /\ last.op = "applyWheel" =>
       (~last.threw <=> planWheelRotate(heap[last.input], last.args.center).ok)
  /\ last.op = "applyBoatFlower" =>
       (~last.threw <=> planBoatOnFlower(heap[last.input], last.args.from, last.args.to).ok)
  /\ last.op = "applyBoatAccent" =>
       (~last.threw <=> planBoatOnAccent(heap[last.input], last.args.target, last.args.boat).ok)

\* an apply call that threw because its planner turned the request down
C9_Witness ==
  /\ last.op = "applyBoatAccent"
  /\ last.threw
  /\ ~planBoatOnAccent(heap[last.input], last.args.target, last.args.boat).ok
  /\ Occupied(heap[last.input]) # {}

\* C10: applyPlannedArrange throws instead of returning a board when the
\* Arrange move is not valid against the given board.
C10_ApplyPlannedArrangeThrowsOnInvalid ==
  (/\ last.op = "applyPlannedArrange"
   /\ ~validateArrange(heap[last.input], last.args.from, last.args.path).ok) =>
    last.threw

\* the points of the board as the rules describe it: 17 rows, y from -8 to 8,
\* of widths 9, 11, 13, 15, nine times 17, 15, 13, 11, 9, each centred on x = 0
IsGridPoint(x, y) ==
  /\ Abs(y) <= 8
  /\ Abs(x) <= (IF Abs(y) <= 4 THEN 8 ELSE 12 - Abs(y))

\* C14: the grid has exactly 249 points; coordsOf(indexOf(x, y)) = (x, y) for
\* every grid point, indexOf(coordsOf(i)) = i for every i in 0..248, and
\* indexOf is -1 for every (x, y) that is not a grid point.
C14_IndexOfCoordsOfInverse ==
  /\ NUM_SQUARES = 249
  /\ Cardinality({p \in Coords \X Coords : IsGridPoint(p[1], p[2])}) = 249
  /\ last.op = "indexOf" =>
       IF IsGridPoint(last.x, last.y)
         THEN /\ last.result \in 0..248
              /\ coordsOf(last.result) = [x |-> last.x, y |-> last.y]
       ELSE last.result = -1
  /\ last.op = "coordsOf" =>
       /\ IsGridPoint(last.result.x, last.result.y)
       /\ indexOf(last.result.x, last.result.y) = last.index

\* indexOf asked for a point beside the end of the shortest row
C14_Witness ==
  /\ last.op = "indexOf"
  /\ last.y = 8
  /\ last.x = 5
  /\ last.result = -1

\* the six unordered pairs of neighbours on the cycle R3-R4-R5-W3-W4-W5-R3
CyclePairs ==
  { {<<"R", 3>>, <<"R", 4>>}, {<<"R", 4>>, <<"R", 5>>}, {<<"R", 5>>, <<"W", 3>>},
    {<<"W", 3>>, <<"W", 4>>}, {<<"W", 4>>, <<"W", 5>>}, {<<"W", 5>>, <<"R", 3>>} }

\* C15: harmoniousPair is symmetric, true for exactly the six pairs of cycle
\* neighbours, so every type has exactly 2 partners, none is its own partner,
\* and no pair is both harmonious and a clash pair.
C15_HarmoniousPairIsCycleAdjacency ==
  last.op = "harmoniousPair" =>
    /\ last.result = harmoniousPair(last.bGarden, last.bNum, last.aGarden, last.aNum)
    /\ last.result <=> {<<last.aGarden, last.aNum>>, <<last.bGarden, last.bNum>>} \in CyclePairs
    /\ Cardinality({t \in Gardens \X Numbers :
                      harmoniousPair(last.aGarden, last.aNum, t[1], t[2])}) = 2
    /\ (last.aGarden = last.bGarden /\ last.aNum = last.bNum) => ~last.result
    /\ ~(last.result /\ last.clash)

\* the pair that closes the cycle: W5 with R3
C15_Witness ==
  /\ last.op = "harmoniousPair"
  /\ last.aGarden = "W" /\ last.aNum = 5
  /\ last.bGarden = "R" /\ last.bNum = 3
  /\ last.result

\* the board holds one piece, a basic flower, on the midline cell from
SingleMidlineBasic(sq, from) ==
  /\ Occupied(sq) = {from}
  /\ IsBasicType(TypeOf(sq[from]))
  /\ coordsOf(from - 1).y = 0

\* unit steps along the midline from the cell from
MidlineWalk(from, path) ==
  \A i \in 1..Len(path) :
    /\ coordsOf(path[i] - 1).y = 0
    /\ Abs(coordsOf(path[i] - 1).x - coordsOf((IF i = 1 THEN from ELSE path[i - 1]) - 1).x) = 1

\* the number of the basic flower on cell from
NumberAt(sq, from) == Descriptor(sq, TypeOf(sq[from]), "host", TRUE).number

\* the claim as it is worded: every walk of unit steps along the midline
C16_EveryMidlineWalkAccepted ==
  (/\ last.op = "validateArrange"
   /\ SingleMidlineBasic(heap[cur], last.from)
   /\ MidlineWalk(last.from, last.path)
   /\ Len(last.path) <= NumberAt(heap[cur], last.from)
   /\ ~isGateCoord(coordsOf(last.path[Len(last.path)] - 1).x, 0)) =>
    last.result.ok

\* C16: on a board holding a single basic flower on the horizontal midline,
\* validateArrange accepts every path of unit steps along the midline that
\* visits no square twice, is no longer than the flower's number and does not
\* end on a gate.
C16_MidlineArrangeAccepted ==
  (/\ last.op = "validateArrange"
   /\ SingleMidlineBasic(heap[cur], last.from)
   /\ MidlineWalk(last.from, last.path)
   /\ Len(last.path) <= NumberAt(heap[cur], last.from)
   /\ ~isGateCoord(coordsOf(last.path[Len(last.path)] - 1).x, 0)
   /\ Cardinality({last.from} \cup {last.path[i] : i \in 1..Len(last.path)}) = Len(last.path) + 1) =>
    last.result.ok

\* Host R3 on (-1,0) walking over (0,0) to (1,0)
C16_Witness ==
  /\ last.op = "validateArrange"
  /\ heap[cur][CellAt(-1, 0)] = packPiece(TypeId.R3, Owner.Host)
  /\ last.from = CellAt(-1, 0)
  /\ last.path = <<CellAt(0, 0), CellAt(1, 0)>>
  /\ last.result.ok

\* the cells on the (up to 8) points surrounding the point of cell c
Surrounding(c) ==
  {CellAt(coordsOf(c - 1).x + dx, coordsOf(c - 1).y + dy) :
     dx \in {-1, 0, 1}, dy \in {-1, 0, 1}} \ {0, c}

\* an Orchid of the other side stands on a cell surrounding cell c
EnemyOrchidNextTo(sq, c) ==
  \E n \in Surrounding(c) :
    sq[n] # 0 /\ TypeOf(sq[n]) = TypeId.Orchid /\ OwnerOf(sq[n]) # OwnerOf(sq[c])

\* C17: validateArrange rejects every Arrange of a flower that has an enemy
\* Orchid on one of the cells surrounding its own cell, and rejects a flower
\* as trapped only when there is such an Orchid.
C17_OrchidTrapIsAdjacency ==
  (/\ last.op = "validateArrange"
   /\ heap[cur][last.from] # 0
   /\ IsFlowerType(TypeOf(heap[cur][last.from]))) =>
    /\ EnemyOrchidNextTo(heap[cur], last.from) => ~last.result.ok
    /\ last.result.reason = "source flower is trapped by enemy orchid" =>
         EnemyOrchidNextTo(heap[cur], last.from)

\* cell c is one of the four gates
IsGateCell(c) == isGateCoord(coordsOf(c - 1).x, coordsOf(c - 1).y)

\* the basic flowers of the board
Basics(sq) == {i \in Occupied(sq) : IsBasicType(TypeOf(sq[i]))}

\* C18: the descriptor of a flower on cell i says blooming = false exactly
\* when cell i is a gate; so a basic flower on a gate takes no part in a
\* clash, and two basic flowers of a clash pair off the gates, aligned and in
\* sight of each other, do.
C18_BloomingIffNotOnGate ==
  /\ (/\ last.op = "getPieceDescriptor"
      /\ ~last.threw
      /\ last.result.kind \in {"basic", "lotus", "orchid"}) =>
       (last.result.blooming <=> ~IsGateCell(last.index))
  /\ (/\ last.op = "detectAnyClash"
      /\ Cardinality(Basics(heap[cur])) = 2
      /\ \E a \in Basics(heap[cur]), b \in Basics(heap[cur]) :
           /\ a < b
           /\ lineOfSightClear(heap[cur], a, b)
           /\ TypeOf(heap[cur][a]) = TypeId.R3
           /\ TypeOf(heap[cur][b]) = TypeId.W3) =>
       (last.result = "true" <=> \A c \in Basics(heap[cur]) : ~IsGateCell(c))

\* the cells strictly between the aligned cells a and b
Between(a, b) ==
  {c \in 1..TOTAL_POINTS :
     \E pa \in {coordsOf(a - 1)}, pb \in {coordsOf(b - 1)}, pc \in {coordsOf(c - 1)} :
       \/ pa.y = pb.y /\ pc.y = pa.y /\ ((pa.x < pc.x /\ pc.x < pb.x) \/ (pb.x < pc.x /\ pc.x < pa.x))
       \/ pa.x = pb.x /\ pc.x = pa.x /\ ((pa.y < pc.y /\ pc.y < pb.y) \/ (pb.y < pc.y /\ pc.y < pa.y))}

\* a and b hold blooming basic flowers of harmonious types on a shared axis
HarmoniousAligned(sq, a, b) ==
  /\ a \in Basics(sq) /\ b \in Basics(sq) /\ a # b
  /\ ~IsGateCell(a) /\ ~IsGateCell(b)
  /\ coordsOf(a - 1).x = coordsOf(b - 1).x \/ coordsOf(a - 1).y = coordsOf(b - 1).y
  /\ \E da \in {Descriptor(sq, TypeOf(sq[a]), "host", TRUE)},
        db \in {Descriptor(sq, TypeOf(sq[b]), "host", TRUE)} :
       {<<da.garden, da.number>>, <<db.garden, db.number>>} \in CyclePairs

\* a Knotweed stands on a cell surrounding a or surrounding b
KnotweedNear(sq, a, b) ==
  \E n \in Surrounding(a) \cup Surrounding(b) : sq[n] # 0 /\ TypeOf(sq[n]) = TypeId.Knotweed

\* the graph g holds the edge between a and b
HasEdge(g, a, b) ==
  /\ a \in DOMAIN g
  /\ \E k \in 1..Len(g[a]) : g[a][k] = b

\* C13: two blooming basic flowers of harmonious types on a shared axis, in
\* clear sight of each other and with no Knotweed near either, are joined in
\* the harmony graph; with a Rock on a cell strictly between them they are
\* not; with the Rock taken off again they are joined again.
C13_RockBetweenCutsEdge ==
  (last.op = "buildHarmonyGraph" /\ ~last.threw) =>
    \A a \in Basics(heap[cur]), b \in Basics(heap[cur]) :
      (HarmoniousAligned(heap[cur], a, b) /\ ~KnotweedNear(heap[cur], a, b)) =>
        /\ (\A c \in Between(a, b) : heap[cur][c] = 0) => HasEdge(last.result, a, b)
        /\ (\E c \in Between(a, b) : isRockAt(heap[cur], c)) => ~HasEdge(last.result, a, b)

\* C19: the harmony graph has no edge between A and B when a Knotweed stands
\* on a cell surrounding A or B, and a Knotweed on none of those cells and not
\* between A and B leaves the edge of an otherwise joined pair in place.
C19_KnotweedCancelsNearby ==
  (last.op = "buildHarmonyGraph" /\ ~last.threw) =>
    \A a \in Basics(heap[cur]), b \in Basics(heap[cur]) :
      HarmoniousAligned(heap[cur], a, b) =>
        /\ KnotweedNear(heap[cur], a, b) => ~HasEdge(last.result, a, b)
        /\ (/\ \A c \in Accents(heap[cur]) : TypeOf(heap[cur][c]) = TypeId.Knotweed
            /\ \A c \in Between(a, b) : heap[cur][c] = 0
            /\ ~KnotweedNear(heap[cur], a, b)) => HasEdge(last.result, a, b)

\* C11: for a Wheel whose 8 surrounding cells are all on the grid, all
\* occupied and none a gate, planWheelRotate answers ok with 8 moves: their
\* sources are the 8 surrounding cells, their targets are those same 8 cells,
\* each once, and the Wheel's cell is neither a source nor a target.
C11_FullRingRotates ==
  (/\ last.op = "planWheelRotate"
   /\ heap[cur][last.center] # 0
   /\ TypeOf(heap[cur][last.center]) = TypeId.Wheel
   /\ Cardinality(Surrounding(last.center)) = 8
   /\ \A n \in Surrounding(last.center) : heap[cur][n] # 0 /\ ~IsGateCell(n)) =>
    /\ ~last.result.threw
    /\ last.result.ok
    /\ Len(last.result.moves) = 8
    /\ {last.result.moves[k].from : k \in 1..Len(last.result.moves)} = Surrounding(last.center)
    /\ {last.result.moves[k].to : k \in 1..Len(last.result.moves)} = Surrounding(last.center)

GateCells == {c \in 1..TOTAL_POINTS : IsGateCell(c)}

\* C12: no accepted Arrange, Wheel rotation or Boat relocation moves a piece
\* to a gate, so from a board with empty gates every board reached by
\* applied Arrange, Wheel, BoatFlower and BoatAccent moves has empty gates.
C12_GatesStayEmpty ==
  \A c \in GateCells : heap[cur][c] = 0

\* C20: from a board without a Clash, every board reached by applying moves
\* the generators offer, sides alternating, is without a Clash.
C20_PlayMakesNoClash ==
  ~detectAnyClash(heap[cur])

\* the boat and the target of a successful Boat-on-accent call on board sq:
\* a Boat, a Rock, Wheel or Knotweed, and the two cells adjacent
BoatAccentProper(sq, boat, target) ==
  /\ sq[boat] # 0 /\ TypeOf(sq[boat]) = TypeId.Boat
  /\ sq[target] # 0 /\ TypeOf(sq[target]) \in {TypeId.Rock, TypeId.Wheel, TypeId.Knotweed}
  /\ target \in Surrounding(boat)

\* C21: planBoatOnAccent answers ok, and applyBoatAccent returns, only when
\* the source cell holds a Boat, the target cell holds a Rock, Wheel or
\* Knotweed and the target is one of the 8 cells surrounding the Boat.
C21_BoatAccentNeedsAdjacentAccent ==
  /\ (last.op = "planBoatOnAccent" /\ last.result.ok) =>
       BoatAccentProper(heap[cur], last.boat, last.accent)
  /\ (last.op = "applyBoatAccent" /\ ~last.threw) =>
       BoatAccentProper(heap[last.input], last.args.boat, last.args.target)

\* the cell the step i of the path leaves
StepFrom(from, path, i) == IF i = 1 THEN from ELSE path[i - 1]

\* the path is a walk of unit orthogonal steps from cell from
UnitSteps(from, path) ==
  \A i \in 1..Len(path) :
    \E p \in {coordsOf(StepFrom(from, path, i) - 1)}, c \in {coordsOf(path[i] - 1)} :
      Abs(p.x - c.x) + Abs(p.y - c.y) = 1

\* the board with cell c emptied
Emptied(sq, c) == [i \in DOMAIN sq |-> IF i = c THEN 0 ELSE sq[i]]

RedTypes == {TypeId.R3, TypeId.R4, TypeId.R5}

WhiteTypes == {TypeId.W3, TypeId.W4, TypeId.W5}

\* the point lies in a red garden, off the midlines and the diagonals
IsRedPoint(p) == p.x * p.y < 0 /\ Abs(p.x) # Abs(p.y)

\* the point lies in a white garden, off the midlines and the diagonals
IsWhitePoint(p) == p.x * p.y > 0 /\ Abs(p.x) # Abs(p.y)

GardenReasons == {"cannot end in opposite garden (red)", "cannot end in opposite garden (white)"}

\* C23: no accepted Arrange ends a white flower on a red point or a red flower
\* on a white point, and a rejection for garden colour is given only to a
\* basic flower ending on a point of the opposite colour: never on a neutral
\* point, never to a Lotus or an Orchid.
C23_NoLandingOnOppositeGarden ==
  (last.op = "validateArrange" /\ Len(last.path) > 0 /\ heap[cur][last.from] # 0) =>
    \E t \in {TypeOf(heap[cur][last.from])}, f \in {coordsOf(last.path[Len(last.path)] - 1)} :
      /\ last.result.ok =>
           /\ ~(t \in WhiteTypes /\ IsRedPoint(f))
           /\ ~(t \in RedTypes /\ IsWhitePoint(f))
      /\ last.result.reason \in GardenReasons =>
           \/ t \in WhiteTypes /\ IsRedPoint(f)
           \/ t \in RedTypes /\ IsWhitePoint(f)

\* a basic flower is accepted on a point of a garden, off the neutral lines
C23_Witness ==
  /\ last.op = "validateArrange" /\ last.result.ok
  /\ TypeOf(heap[cur][last.from]) \in RedTypes \cup WhiteTypes
  /\ \E f \in {coordsOf(last.path[Len(last.path)] - 1)} : IsRedPoint(f) \/ IsWhitePoint(f)

\* the nodes of a cycle
NodesOf(cycle) == {cycle[i] : i \in 1..Len(cycle)}

\* the node after place i of the cycle, the first after the last
NextOn(cycle, i) == cycle[IF i = Len(cycle) THEN 1 ELSE i + 1]

\* the side from a to b of the polygon crosses the x-axis right of the centre:
\* its ends are on different sides of the axis (y > 0 on one only) and the
\* point where it meets the axis has x > 0
CrossesRightOfCentre(a, b) ==
  \E p \in {coordsOf(a - 1)}, q \in {coordsOf(b - 1)} :
    /\ (p.y > 0 /\ q.y <= 0) \/ (q.y > 0 /\ p.y <= 0)
    /\ (p.x * (q.y - p.y) - p.y * (q.x - p.x)) * (q.y - p.y) > 0

\* the ray from the centre along the x-axis crosses the polygon of the cycle
\* an odd number of times
EnclosesCentre(cycle) ==
  Cardinality({i \in 1..Len(cycle) : CrossesRightOfCentre(cycle[i], NextOn(cycle, i))}) % 2 = 1

\* C24: every ring findHarmonyRings returns has at least 4 nodes, all
\* distinct, each joined to the next and the last to the first by an edge of
\* buildHarmonyGraph(board), and its polygon in that order encloses (0,0).
C24_RingsAreEnclosingCycles ==
  (last.op = "findHarmonyRings" /\ ~last.threw) =>
    \A k \in 1..Len(last.result) :
      \E ring \in {last.result[k]} :
        /\ Len(ring) >= 4
        /\ Cardinality(NodesOf(ring)) = Len(ring)
        /\ \A i \in 1..Len(ring) : HasEdge(buildHarmonyGraph(heap[cur]), ring[i], NextOn(ring, i))
        /\ EnclosesCentre(ring)

\* a ring of more than 4 nodes is returned
C24_Witness ==
  /\ last.op = "findHarmonyRings" /\ ~last.threw
  /\ \E k \in 1..Len(last.result) : Len(last.result[k]) > 4

\* C25: for every node set carrying a simple cycle of the harmony graph, of
\* 4 to 20 nodes, whose polygon encloses (0,0), findHarmonyRings returns
\* exactly one ring with that node set.
C25_OneRingPerEnclosingNodeSet ==
  (last.op = "findHarmonyRings" /\ ~last.threw) =>
    \E cycles \in {ClosedCycles(buildHarmonyGraph(heap[cur]))} :
      \A n \in 1..Len(cycles) :
        EnclosesCentre(cycles[n]) =>
          Cardinality({k \in 1..Len(last.result) : NodesOf(last.result[k]) = NodesOf(cycles[n])}) = 1

\* C26: generateLegalArrangeMoves(board, side) returns, exactly once, every
\* {from, path} with a flower of side on from that validateArrange accepts.
C26_GeneratorIsComplete ==
  last.op = "generateLegalArrangeMoves" =>
    \A from \in ArrangeSources(heap[cur], last.side), n \in 1..MaxWalk :
      \A path \in Walks(from, n) :
        validateArrange(heap[cur], from, path).ok =>
          /\ ~last.threw
          /\ Cardinality({k \in 1..Len(last.moves) :
                            last.moves[k] = [from |-> from, path |-> path]}) = 1

\* C27: the table never holds more entries than its capacity; a TT_set that
\* finds it at capacity deletes one eighth of the capacity in entries, the
\* oldest first, and then stores the new entry.
C27_TableWithinCap ==
  /\ TT_CAP \div 8 >= 1
  /\ Len(TT) <= MaxTable
  /\ (last.op = "TT_set" /\ Len(last.before) >= MaxTable) =>
       \E kept \in {SubSeq(last.before, MaxTable \div 8 + 1, Len(last.before))} :
         /\ \A n \in 1..Len(kept) : TT[n].key = kept[n].key
         /\ \E n \in 1..Len(TT) : TT[n].key = last.key
         /\ Len(TT) \in {Len(kept), Len(kept) + 1}

\* a TT_set finds the table at capacity
C27_Witness ==
  /\ last.op = "TT_set"
  /\ Len(last.before) >= MaxTable

\* how many squares of the board hold the piece p
CountOf(sq, p) == Cardinality({i \in DOMAIN sq : sq[i] = p})

PackedPieces == {packPiece(t, o) : t \in 1..12, o \in {Owner.Host, Owner.Guest}}

\* the board after holds the pieces of the board before without the pieces
\* that stood on the cells gone
SamePiecesBut(before, after, gone) ==
  \A p \in PackedPieces :
    CountOf(after, p) = CountOf(before, p) - Cardinality({c \in gone : before[c] = p})

\* C28: an applied move creates no piece and changes none: a Wheel rotation
\* and a Boat-on-flower leave the multiset of pieces as it was, an Arrange
\* removes only the piece that stood on its landing square, and a
\* Boat-on-accent removes the Boat and the targeted accent and nothing else.
C28_MovesConservePieces ==
  [][last'.op = "applyAnyMove" =>
       \E mv \in {last'.move} :
         SamePiecesBut(heap[cur], heap'[cur'],
                       IF mv.kind = "arrange"
                         THEN {c \in {mv.path[Len(mv.path)]} : heap[cur][c] # 0}
                       ELSE IF mv.kind = "boatAccent" THEN {mv.boat, mv.target}
                       ELSE {})]_vars

\* a Boat-on-accent has been played and has left two pieces fewer on the board
C28_Witness ==
  /\ last.op = "applyAnyMove"
  /\ last.move.kind = "boatAccent"
  /\ Cardinality(Occupied(heap[cur])) = 2

(* --------------------- Depth-one search on scenes --------------------- *)

\* a Host Wheel at the centre, with a Host Lotus and a Guest Lotus near the
\* lower left corner of the grid; and the Wheel with a Guest W3 on its ring
\* while a Guest Rock stands on the last cell of the grid
GreedyScenes ==
  {BoardOf(CellAt(0, 0) :> packPiece(TypeId.Wheel, Owner.Host)
           @@ a :> packPiece(TypeId.Lotus, Owner.Host)
           @@ b :> packPiece(TypeId.Lotus, Owner.Guest)) :
     a \in {CellAt(-4, -8), CellAt(-3, -8)},
     b \in {CellAt(-4, -7), CellAt(-2, -8), CellAt(-3, -7), CellAt(-2, -7)}}
  \cup {BoardOf(CellAt(0, 0) :> packPiece(TypeId.Wheel, Owner.Host)
               @@ CellAt(1, 1) :> packPiece(TypeId.W3, Owner.Guest)
               @@ TOTAL_POINTS :> packPiece(TypeId.Rock, Owner.Guest))}

\* one move played on the scene before the search is asked
GreedyPlay(mv) ==
  /\ last.op = "new Board"
  /\ PlayMove(mv)

\* pickBestMove(board, side, 1) without a time limit
GreedySearch ==
  /\ last.op \in {"new Board", "applyAnyMove"}
  /\ CallPickBestMove("pickBestMove", 0)

NextGreedy ==
  \/ \E gen \in {generateAllMoves(heap[cur], side)} :
       \E k \in 1..Len(gen.out) : GreedyPlay(gen.out[k])
  \/ GreedySearch

SpecGreedy == InitOn(GreedyScenes) /\ [][NextGreedy]_vars

(* ----------------- Iterative deepening, step by step ------------------ *)

MaxReduce == 5

MaxIndex == 7

MoveKinds == {"arrange", "wheel", "boatFlower", "boatAccent"}

NoLimit == [limited |-> FALSE, budget |-> 0]

\* one or two Lotus on two cells of the middle row and on the last cell, and
\* two Host Lotus on the middle row against a Guest Lotus at (5,3)
DeepenScenes ==
  {BoardOf(a :> packPiece(TypeId.Lotus, Owner.Host) @@ b :> p) :
     a \in {120, 124}, b \in {120, 124, TOTAL_POINTS},
     p \in {packPiece(TypeId.Lotus, Owner.Host), packPiece(TypeId.Lotus, Owner.Guest)}}
  \cup {BoardOf(120 :> packPiece(TypeId.Lotus, Owner.Host)
               @@ 124 :> packPiece(TypeId.Lotus, Owner.Host)
               @@ CellAt(5, 3) :> packPiece(TypeId.Lotus, Owner.Guest))}

InitDeepen ==
  /\ \E sq \in DeepenScenes : heap = OneBoard(sq)
  /\ cur = 0
  /\ side \in Sides
  /\ config \in [depth : 0..MaxDepth, limited : {FALSE}]
  /\ TT = <<>>
  /\ killers = NoKillers
  /\ history = <<>>
  /\ plies = 0
  /\ last = [op |-> "new Board"]

\* a window that is never widened
WidenedNot(alpha, beta, window, score) ==
  [alpha |-> alpha, beta |-> beta, window |-> window]

\* the bounds and the window after a search that returned score: fail-low
\* widens downward, fail-high upward, a score inside the window leaves them
Widened(alpha, beta, window, score) ==
  IF score <= alpha THEN [alpha |-> alpha - window * 2, beta |-> beta, window |-> window * 2]
  ELSE IF score >= beta THEN [alpha |-> alpha, beta |-> beta + window * 2, window |-> window * 2]
  ELSE [alpha |-> alpha, beta |-> beta, window |-> window]

\* the root call returns at the "TT probe" without searching a move
RootFromTable(tt, sq, s, d, alpha, beta) ==
  \E e \in {TT_get(tt, boardKey(sq, s))} :
    /\ e # NoEntry
    /\ e.depth >= d
    /\ \/ e.flag = "EXACT"
       \/ (IF e.flag = "LOWER" THEN Max(alpha, e.score) ELSE alpha)
            >= (IF e.flag = "UPPER" /\ e.score < beta THEN e.score ELSE beta)

\* the depth the loop body of a node of depth depth hands to the child of the
\* move mv at index idxInList
CallNewDepth(depth, mv, idxInList) ==
  /\ InSetup
  /\ last' = [op |-> "newDepth", depth |-> depth, kind |-> mv.kind, idxInList |-> idxInList,
              result |-> NewDepth(depth, mv, idxInList)]
  /\ UNCHANGED <<heap, cur, side, config, TT, killers, history, plies>>

\* searchIterativeDeepening, up to the first pass of while (true)
StartDeepening ==
  /\ last.op \in {"new Board", "newDepth"}
  /\ TT' = <<>>
  /\ last' = IF 1 > config.depth THEN [op |-> "returned", move |-> NoMove, d |-> 0,
                                       failedLow |-> FALSE, failedHigh |-> FALSE, fromTable |-> FALSE]
             ELSE [op |-> "aspirate", d |-> 1, alpha |-> 0 - InitialWindow, beta |-> 0 + InitialWindow,
                   window |-> InitialWindow, lastBest |-> NoMove,
                   failedLow |-> FALSE, failedHigh |-> FALSE, fromTable |-> FALSE]
  /\ UNCHANGED <<heap, cur, side, config, killers, history, plies>>

\* result = searchAlphaBeta(board, side, d, alpha, beta, ...) of one pass of
\* while (true)
RootSearch ==
  /\ last.op = "aspirate"
  /\ \E result \in {searchAlphaBeta(Context(TT, killers, history), heap[cur], side, last.d,
                                     last.alpha, last.beta, NoLimit, 0)} :
       /\ TT' = result.st.TT
       /\ killers' = result.st.killers
       /\ history' = result.st.history
       /\ last' = [op |-> IF result.threw THEN "threw" ELSE "result", d |-> last.d,
                   alpha |-> last.alpha, beta |-> last.beta, window |-> last.window,
                   lastBest |-> last.lastBest, failedLow |-> last.failedLow,
                   failedHigh |-> last.failedHigh,
                   fromTable |-> last.fromTable
                                 \/ RootFromTable(TT, heap[cur], side, last.d, last.alpha, last.beta),
                   score |-> result.score, best |-> result.best]
  /\ UNCHANGED <<heap, cur, side, config, plies>>

\* the rest of the pass: a score outside the window widens it and the loop
\* goes round; a score inside it ends the depth iteration, and the call
\* after the last depth
JudgeResult ==
  /\ last.op = "result"
  /\ \E w \in {Widened(last.alpha, last.beta, last.window, last.score)},
        lastBest1 \in {IF last.best # NoMove THEN last.best ELSE last.lastBest} :
       last' = IF last.score <= last.alpha \/ last.score >= last.beta
                 THEN [op |-> "aspirate", d |-> last.d, alpha |-> w.alpha, beta |-> w.beta,
                       window |-> w.window, lastBest |-> last.lastBest,
                       failedLow |-> last.failedLow \/ last.score <= last.alpha,
                       failedHigh |-> last.failedHigh \/ last.score >= last.beta,
                       fromTable |-> last.fromTable]
               ELSE IF last.d + 1 > config.depth
                 THEN [op |-> "returned", move |-> lastBest1, d |-> last.d,
                       failedLow |-> last.failedLow, failedHigh |-> last.failedHigh,
                       fromTable |-> last.fromTable]
               ELSE [op |-> "aspirate", d |-> last.d + 1,
                     alpha |-> last.score - Max(InitialWindow, (w.window * 3) \div 4),
                     beta |-> last.score + Max(InitialWindow, (w.window * 3) \div 4),
                     window |-> Max(InitialWindow, (w.window * 3) \div 4),
                     lastBest |-> lastBest1,
                     failedLow |-> last.failedLow, failedHigh |-> last.failedHigh,
                     fromTable |-> last.fromTable]
  /\ UNCHANGED <<heap, cur, side, config, TT, killers, history, plies>>

NextDeepen ==
  \/ \E depth \in 1..MaxReduce, kind \in MoveKinds, idxInList \in 0..MaxIndex :
       CallNewDepth(depth, [kind |-> kind], idxInList)
  \/ StartDeepening
  \/ RootSearch
  \/ JudgeResult

\* the call runs on once it has been made: a root search that was started
\* returns or throws, and its result is judged
SpecDeepen ==
  InitDeepen /\ [][NextDeepen]_vars /\ []<>(last.op # "aspirate") /\ WF_vars(JudgeResult)

\* evaluate(apply(board, m), side) on the board the program holds
ValueAfter(mv) ==
  evaluate(Result(applyMoveCloned(OneBoard(heap[cur]), 0, side, mv)), side)

\* C29: without a time limit pickBestMove(board, side, 1) returns a generated
\* move whose evaluate(apply(board, m), side) is the greatest over all
\* generated moves, after whatever aspiration re-searches and root table hits.
C29_DepthOneIsGreedy ==
  (last.op \in PickOps /\ config.depth = 1 /\ ~config.limited) =>
    \E gen \in {generateAllMoves(heap[cur], side)} :
      (~gen.threw /\ Len(gen.out) > 0) =>
        /\ ~last.threw
        /\ \E n \in 1..Len(gen.out) : gen.out[n] = last.move
        /\ \A n \in 1..Len(gen.out) : ValueAfter(gen.out[n]) <= ValueAfter(last.move)

\* C30: without a time limit pickBestMove ends: the depth handed to a child is
\* below the depth of its parent and not below 0, a reduced depth lies between
\* 1 and depth - 2, and every aspiration loop that was entered is left, by a
\* return or by an exception, root table answers included.
C30_SearchTerminates ==
  /\ [](last.op = "newDepth" =>
         /\ last.result >= 0
         /\ last.result < last.depth
         /\ last.result # last.depth - 1 => (last.result >= 1 /\ last.result <= last.depth - 2))
  /\ (last.op = "aspirate") ~> (last.op \in {"returned", "threw"})

\* a depth-two call has returned a move after the window was widened and a
\* re-search was answered from the table at the root
C30_Witness ==
  /\ last.op = "returned"
  /\ config.depth = 2
  /\ last.move # NoMove
  /\ last.failedHigh
  /\ last.fromTable

====
